---- MODULE Spec2Model ----
(***************************************************************************)
(* Process supervision and asynchronous job orchestration of the           *)
(* sub-agent router (runner.rs, server.rs, job_store.rs) and of the shell  *)
(* tool (shell.rs).                                                        *)
(*                                                                         *)
(* Two specifications share the definitions of this module:                *)
(*   Spec       the job lifecycle: the tool handlers of the single-threaded*)
(*              RPC loop, the background task of every asynchronous job,   *)
(*              and under them the control loop of run_command.  The wall  *)
(*              clock is not tracked here: every clock comparison of the   *)
(*              control loop is an input resolved by the environment.      *)
(*   SpecTimed  one execution of run_command against a clock that advances *)
(*              in quanta of half a polling slice; the steps of the        *)
(*              control loop and of the readers take no time and time      *)
(*              passes only while the loop is blocked in recv_timeout.     *)
(*              An Instant is kept relative to the current instant:        *)
(*              start_time as the time elapsed since it, a kill deadline   *)
(*              as the time left to it.                                    *)
(* Only the POSIX build is modelled (cfg!(windows) is false).              *)
(***************************************************************************)
EXTENDS Integers, Sequences, FiniteSets, TLC

\* ------------------------------------------------------------------ bounds
\* Number of job ids generate_id("job") hands out in one behaviour.
MaxJobs == 2
\* Number of data chunks the readers of one execution deliver.
MaxChunks == 1
\* Largest number of bytes one read() returns in the model.
MaxChunkLen == 2
\* Quanta per polling slice of the clock of SpecTimed.
TicksPerSlice == 2
\* Number of data chunks the child of one execution of SpecExec writes.
MaxExecChunks == 2
\* The longest stdin payload, in units of the capacity of a pipe.
MaxInput == 2
\* The most chunks a child writes to stdout before it reads its stdin.
MaxOwed == 2
\* Number of calls made to the JobStore in one behaviour of SpecStore.
MaxStoreCalls == 3
\* What the kernel buffers in the stdin pipe before write blocks, in units.
PipeCapacity == 1
\* The longest command text of a run_shell call, in glyphs.
MaxCommandLen == 3
\* The longest dir_path of a run_shell call, in components.
MaxPathLen == 3

\* ------------------------------------------------------- program constants
\* rx.recv_timeout(Duration::from_millis(100))
RecvTimeoutMs == 100
\* kill_deadline = Instant::now() + Duration::from_secs(2)
KillGraceMs == 2000

Quantum == RecvTimeoutMs \div TicksPerSlice

JobIds == 1..MaxJobs
StreamKind == {"Stdout", "Stderr"}
None == "none"

\* The values of the timeout options drawn by Init (<= 0 disables the timeout).
Timeouts == {0, RecvTimeoutMs + Quantum \div 2}
\* The value of max_output_bytes drawn by Init.
OutputCeilings == {MaxChunkLen}

\* Bytes a child writes: an ASCII letter and a byte that is not valid UTF-8.
Bytes == {"a", "xFF"}
Chunks == UNION { [1..n -> Bytes] : n \in 1..MaxChunkLen }

\* std::process::ExitStatus as run_command reads it: status.code() and
\* extract_signal(&status).  A child ended by a signal has no exit code.
ExitStatuses ==
    { [code |-> "0", signal |-> None], [code |-> "1", signal |-> None],
      [code |-> None, signal |-> "SIGSEGV"] }
TermStatus == [code |-> None, signal |-> "SIGTERM"]
KillStatus == [code |-> None, signal |-> "SIGKILL"]

Terminal == {"done", "error", "cancelled"}

VARIABLES
    jobs,            \* table subagent_jobs: job id -> JobRecord
    events,          \* table subagent_events: job id -> its events, in order
    async_registry,  \* HashMap<String, Arc<AtomicBool>>: job id -> flag value
    flag,            \* the AtomicBool created for each job
    next_id,         \* number of job ids generated so far
    handler,         \* the tool call the RPC loop is executing, or idle
    ret,             \* what the handler that created each job returned
    bg,              \* background task of each asynchronous job
    run,             \* locals of the run_command / execute_shell call of each job
    child,           \* the spawned process and the write ends of its pipes
    reader,          \* the two reader threads of each execution
    rx,              \* the mpsc channel of each execution
    opts,            \* ServerOptions: timeout_ms, ai_timeout_ms, max_output_bytes
    hist             \* history of each job id in the registry and of its cancels

vars == <<jobs, events, async_registry, flag, next_id, handler, ret, bg, run,
          child, reader, rx, opts, hist>>

jobVars == <<jobs, events, async_registry, next_id, handler, ret, bg>>

\* ------------------------------------------------------------ initial values
NoStatus == [code |-> "unset", signal |-> "unset"]
NoResult ==
    [stdout |-> <<>>, stderr |-> <<>>, exit_code |-> "unset", signal |-> "unset",
     stdout_truncated |-> FALSE, stderr_truncated |-> FALSE,
     error |-> "unset", timed_out |-> FALSE]

\* The locals of run_command before the call, with the history of the
\* execution: the signals sent (term_count, kill_count, stale_signals to a
\* child already reaped), the time since the first graceful request
\* (since_term) and its value at the first kill (kill_after), and the number
\* of chunks the child wrote.  last_activity is the time since the last data
\* event was received (since the start when none was) and since_flag the
\* time the flag has been set without the loop having read it; since_data is
\* the time since execute_shell last took a data event from the channel.  output, total_bytes,
\* truncated and last_stream are locals of execute_shell only.  input_left is
\* what write_all has still to write of the stdin payload.  For an execution
\* that is traced, seen holds the bytes of the data chunks of each stream the
\* loop has processed, in the order it processed them, and wrote the bytes
\* the child has written to each stream, in the order it wrote them.
IdleRun ==
    [pc |-> "idle", variant |-> "runner", timeout_ms |-> 0, max_output_bytes |-> 0,
     has_flag |-> FALSE, exit_status |-> NoStatus,
     stdout_done |-> FALSE, stderr_done |-> FALSE,
     timed_out |-> FALSE, cancelled |-> FALSE,
     kill_armed |-> FALSE, kill_deadline |-> 0,
     elapsed |-> 0, recv_waited |-> 0, last_activity |-> 0, since_flag |-> 0,
     since_data |-> 0,
     term_count |-> 0, kill_count |-> 0, since_term |-> 0, kill_after |-> 0,
     stale_signals |-> 0, chunks |-> 0,
     stdout_text |-> <<>>, stderr_text |-> <<>>,
     stdout_truncated |-> FALSE, stderr_truncated |-> FALSE,
     output |-> <<>>, total_bytes |-> 0, truncated |-> FALSE,
     last_stream |-> "none", input_left |-> 0,
     traced |-> FALSE, seen |-> [s \in StreamKind |-> <<>>],
     wrote |-> [s \in StreamKind |-> <<>>],
     result |-> NoResult]

NoChild ==
    [state |-> "none", status |-> NoStatus, ignores_term |-> FALSE,
     descendants |-> FALSE, term_pending |-> FALSE, reaped |-> FALSE,
     stdin |-> 0, owes |-> 0,
     open |-> [s \in StreamKind |-> FALSE],
     pipe |-> [s \in StreamKind |-> <<>>]]

NoHist == [inserted |-> 0, removed |-> 0, cancel_live |-> FALSE,
           persisted |-> "none"]

\* ------------------------------------------------------------- the child
\* Command::spawn succeeded: a running child holding the write ends of both
\* output pipes.  Whether it ignores SIGTERM is the child's choice.
SpawnedChild(ignores) ==
    [state |-> "running", status |-> NoStatus, ignores_term |-> ignores,
     descendants |-> FALSE, term_pending |-> FALSE, reaped |-> FALSE,
     stdin |-> 0, owes |-> 0,
     open |-> [s \in StreamKind |-> TRUE],
     pipe |-> [s \in StreamKind |-> <<>>]]

\* A child that started processes of its own, which inherited the write ends
\* of its output pipes (a command that leaves a process in the background).
WithDescendants(c) == [c EXCEPT !.descendants = TRUE]

\* The child ends with status st; its write ends are closed with it, and stay
\* open in its descendants when it has some.
Exited(c, st) ==
    [c EXCEPT !.state = "exited", !.status = st,
              !.open = IF c.descendants THEN @ ELSE [s \in StreamKind |-> FALSE]]

\* The child ends on its own: exit code 0, a nonzero exit code, or a signal
\* nobody of this program sent.
ChildExit(x) ==
    /\ child[x].state = "running"
    /\ \E st \in ExitStatuses : child' = [child EXCEPT ![x] = Exited(@, st)]
    /\ UNCHANGED <<jobVars, flag, run, reader, rx, opts, hist>>

\* The running child closes one of its output streams; when the child has
\* ended, its descendants close the write end they inherited.
ChildClose(x, s) ==
    /\ \/ child[x].state = "running"
       \/ child[x].state = "exited" /\ child[x].descendants
    /\ child[x].open[s]
    /\ child' = [child EXCEPT ![x].open[s] = FALSE]
    /\ UNCHANGED <<jobVars, flag, run, reader, rx, opts, hist>>

\* The running child writes the bytes n to one of its output streams.
ChildWrite(x, s, n) ==
    /\ child[x].state = "running"
    /\ child[x].open[s]
    /\ run[x].chunks < MaxChunks
    /\ child' = [child EXCEPT ![x].pipe[s] = Append(@, n)]
    /\ run' = [run EXCEPT ![x].chunks = @ + 1]
    /\ UNCHANGED <<jobVars, flag, reader, rx, opts, hist>>

\* The running child reads one unit of its stdin, once it has written the
\* output it writes first (or has closed its stdout and writes none).
ChildRead(x) ==
    /\ child[x].state = "running"
    /\ child[x].owes = 0 \/ ~child[x].open["Stdout"]
    /\ child[x].stdin > 0
    /\ child' = [child EXCEPT ![x].stdin = @ - 1]
    /\ UNCHANGED <<jobVars, flag, run, reader, rx, opts, hist>>

\* The running child writes one of the chunks it writes before reading its
\* stdin; write blocks while the stdout pipe is full.
ChildOwedWrite(x) ==
    /\ child[x].state = "running"
    /\ child[x].owes > 0
    /\ child[x].open["Stdout"]
    /\ child[x].pipe["Stdout"] = <<>>
    /\ child' = [child EXCEPT ![x].pipe["Stdout"] = Append(@, <<"a">>),
                              ![x].owes = @ - 1]
    /\ UNCHANGED <<jobVars, flag, run, reader, rx, opts, hist>>

\* kill(pid, SIGTERM): a running child that does not ignore the signal ends
\* by it at once; one that ignores it runs on (and may end on its own later).
terminate_child(c) ==
    IF c.state # "running" THEN c
    ELSE IF c.ignores_term THEN [c EXCEPT !.term_pending = TRUE]
    ELSE Exited(c, TermStatus)

\* kill(pid, SIGKILL): a running child ends at once.
force_kill(c) ==
    IF c.state = "running" THEN Exited(c, KillStatus) ELSE c

\* ------------------------------------------------------------ the readers
\* A variant of SendReady for a channel that holds one event
\* (mpsc::sync_channel(1)): send waits while the channel is full.
SendReadyBounded(queue) == Len(queue) < 1

\* let (tx, rx) = mpsc::channel(): the channel is unbounded, and tx.send
\* never waits, whatever the receiver has taken so far.
SendReady(queue) == TRUE

\* let mut buffer = [0u8; 4096]: the most bytes one read() returns, which the
\* model counts as MaxChunkLen.
BufferLen == MaxChunkLen

\* A variant of Sent that puts the event in front of those not yet received.
SentAhead(queue, ev) == <<ev>> \o queue

\* tx.send(event): the event is queued behind those sent before it.
Sent(queue, ev) == Append(queue, ev)

\* One turn of the loop of a reader thread: read() returns the next bytes of
\* the pipe, as many as were written together and the buffer holds, which are
\* sent as Data, or end-of-file once every write end is closed and the pipe
\* is drained, which is sent as Done and ends the thread.
spawn_reader(x, s) ==
    /\ reader[x][s] = "reading"
    /\ SendReady(rx[x])
    /\ \/ /\ child[x].pipe[s] # <<>>
          /\ LET bytes == Head(child[x].pipe[s])
                 n == IF Len(bytes) > BufferLen THEN BufferLen ELSE Len(bytes)
                 rest == SubSeq(bytes, n + 1, Len(bytes))
             IN /\ rx' = [rx EXCEPT ![x] =
                            Sent(@, [type |-> "Data", kind |-> s,
                                     chunk |-> SubSeq(bytes, 1, n)])]
                /\ child' = [child EXCEPT ![x].pipe[s] =
                               IF rest = <<>> THEN Tail(@)
                               ELSE <<rest>> \o Tail(@)]
          /\ UNCHANGED reader
       \/ /\ child[x].pipe[s] = <<>>
          /\ ~child[x].open[s]
          /\ child[x].state # "none"
          /\ rx' = [rx EXCEPT ![x] =
                      Sent(@, [type |-> "Done", kind |-> s, chunk |-> <<>>])]
          /\ reader' = [reader EXCEPT ![x][s] = "stopped"]
          /\ UNCHANGED child
    /\ UNCHANGED <<jobVars, flag, run, opts, hist>>

\* ---------------------------------------------------------- run_command
\* String::from_utf8_lossy: a byte that is not valid UTF-8 becomes U+FFFD,
\* three bytes long in the String.
RECURSIVE from_utf8_lossy(_)
from_utf8_lossy(bytes) ==
    IF bytes = <<>> THEN <<>>
    ELSE (IF Head(bytes) = "xFF" THEN <<"xEF", "xBF", "xBD">> ELSE <<Head(bytes)>>)
         \o from_utf8_lossy(Tail(bytes))

\* usize::saturating_sub
saturating_sub(a, b) == IF a > b THEN a - b ELSE 0

\* The locals of run_command after a successful spawn, at the top of the loop.
StartedRun(timeout, ceiling, has_flag) ==
    [IdleRun EXCEPT !.pc = "loop", !.timeout_ms = timeout,
                    !.max_output_bytes = ceiling, !.has_flag = has_flag]

\* run_command between the spawn and the loop, for a call with Some(input):
\* stdin.write_all(text) writes what the stdin pipe has room for and blocks
\* while it is full; it fails (EPIPE, returned through `?`) once the child has
\* ended.  When all is written stdin is dropped, and only then are the two
\* readers spawned and the loop entered.
run_command_stdin(x) ==
    /\ run[x].pc = "write_all"
    /\ IF run[x].input_left = 0
       THEN /\ run' = [run EXCEPT ![x].pc = "loop"]
            /\ reader' = [reader EXCEPT ![x] = [s \in StreamKind |-> "reading"]]
            /\ UNCHANGED child
       ELSE IF child[x].state # "running"
       THEN /\ run' = [run EXCEPT ![x].pc = "failed"]
            /\ UNCHANGED <<child, reader>>
       ELSE /\ child[x].stdin < PipeCapacity
            /\ child' = [child EXCEPT ![x].stdin = @ + 1]
            /\ run' = [run EXCEPT ![x].input_left = @ - 1]
            /\ UNCHANGED reader
    /\ UNCHANGED <<jobVars, flag, rx, opts, hist>>

\* The RunResult assembled after the loop.
RunResult(r, status) ==
    [stdout |-> IF r.stdout_text = <<>> THEN <<"(empty)">> ELSE r.stdout_text,
     stderr |-> IF r.stderr_text = <<>> THEN <<"(empty)">> ELSE r.stderr_text,
     exit_code |-> status.code, signal |-> status.signal,
     stdout_truncated |-> r.stdout_truncated,
     stderr_truncated |-> r.stderr_truncated,
     error |-> IF r.cancelled THEN "cancelled" ELSE None,
     timed_out |-> r.timed_out]

\* The history of the signals one iteration sends: terms graceful requests and
\* kills forceful ones, to child c as it was after the exit poll.
Signalled(r, c, terms, kills) ==
    [r EXCEPT !.term_count = @ + terms,
              !.kill_count = @ + kills,
              !.kill_after = IF r.kill_count = 0 /\ kills > 0 THEN r.since_term ELSE @,
              !.stale_signals = @ + (IF c.reaped THEN terms + kills ELSE 0)]

\* A variant of TimeoutDue that does not test timeout_ms > 0.
TimeoutDueUnguarded(r, elapsed) == ~r.timed_out /\ elapsed

\* The timeout check of run_command:
\* timeout_ms > 0 && !timed_out && start_time.elapsed() >= timeout_ms
TimeoutDue(r, elapsed) == r.timeout_ms > 0 /\ ~r.timed_out /\ elapsed

\* A variant of CancelDue that skips the check while a kill deadline is armed.
CancelDueUnarmed(r, flagged) ==
    r.has_flag /\ flagged /\ ~r.cancelled /\ ~r.kill_armed

\* The cancellation check of run_command, for a call given a flag:
\* flag.load(Ordering::Relaxed) && !cancelled
CancelDue(r, flagged) == r.has_flag /\ flagged /\ ~r.cancelled

\* A variant of LoopDone that leaves the loop as soon as the exit of the child
\* has been observed.
LoopDoneOnExit(r, es) == es # NoStatus

\* The exit test of both loops, after the exit poll has stored es:
\* if stdout_done && stderr_done && exit_status.is_some() { break; }
LoopDone(r, es) == r.stdout_done /\ r.stderr_done /\ es # NoStatus

\* One iteration of the loop of run_command up to the receive: the
\* non-blocking exit poll, the exit test, the timeout check, the cancellation
\* check and the kill deadline.  When the loop exits the result is assembled.
\* elapsed reads start_time.elapsed() >= timeout_ms and reached reads
\* Instant::now() >= deadline for a deadline armed by an earlier iteration (a
\* deadline armed by this iteration lies KillGraceMs ahead of the clock).
run_command_loop(x, elapsed, reached) ==
    /\ run[x].pc = "loop"
    /\ run[x].variant = "runner"
    /\ LET r == run[x]
           c == child[x]
           polled == r.exit_status = NoStatus /\ c.state = "exited"
           es == IF polled THEN c.status ELSE r.exit_status
           c0 == IF polled THEN [c EXCEPT !.reaped = TRUE] ELSE c
       IN IF LoopDone(r, es)
          THEN /\ run' = [run EXCEPT ![x] =
                            [r EXCEPT !.exit_status = es, !.pc = "returned",
                                      !.result = RunResult(r, es)]]
               /\ child' = [child EXCEPT ![x] = c0]
          ELSE LET to == TimeoutDue(r, elapsed)
                   cf == CancelDue(r, flag[x])
                   armed == to \/ cf
                   fk == ~armed /\ r.kill_armed /\ reached
                   c1 == IF to THEN terminate_child(c0) ELSE c0
                   c2 == IF cf THEN terminate_child(c1) ELSE c1
                   c3 == IF fk THEN force_kill(c2) ELSE c2
               IN /\ run' = [run EXCEPT ![x] =
                               [Signalled(r, c0,
                                          (IF to THEN 1 ELSE 0) + (IF cf THEN 1 ELSE 0),
                                          IF fk THEN 1 ELSE 0)
                                  EXCEPT !.exit_status = es,
                                         !.timed_out = @ \/ to,
                                         !.cancelled = @ \/ cf,
                                         !.since_flag = IF cf THEN 0 ELSE @,
                                         !.kill_armed = (@ \/ armed) /\ ~fk,
                                         !.kill_deadline =
                                             IF armed THEN KillGraceMs ELSE @,
                                         !.pc = "recv", !.recv_waited = 0]]
                  /\ child' = [child EXCEPT ![x] = c3]
    /\ UNCHANGED <<jobVars, flag, reader, rx, opts, hist>>

\* The truncation accounting of one stream of run_command: the text and the
\* truncated flag after a chunk.
Appended(text, truncated, chunk, max_output_bytes) ==
    IF truncated THEN [text |-> text, truncated |-> TRUE]
    ELSE LET remaining == saturating_sub(max_output_bytes, Len(text))
         IN IF Len(chunk) > remaining
            THEN [text |-> text \o from_utf8_lossy(SubSeq(chunk, 1, remaining)),
                  truncated |-> TRUE]
            ELSE [text |-> text \o from_utf8_lossy(chunk), truncated |-> FALSE]

\* The history of a traced execution after the loop has processed a chunk.
Seen(r, kind, chunk) ==
    IF r.traced THEN [r EXCEPT !.seen[kind] = @ \o chunk] ELSE r

\* rx.recv_timeout(100 ms) of run_command and the processing of at most one
\* event.  waited reads "100 ms have passed since the receive began"; the
\* sender tx lives as long as the call, so the channel never disconnects.
run_command_recv(x, waited) ==
    /\ run[x].pc = "recv"
    /\ run[x].variant = "runner"
    /\ LET r == run[x] IN
       IF rx[x] # <<>>
       THEN LET ev == Head(rx[x]) IN
            /\ rx' = [rx EXCEPT ![x] = Tail(@)]
            /\ run' = [run EXCEPT ![x] =
                 IF ev.type = "Done"
                 THEN IF ev.kind = "Stdout"
                      THEN [r EXCEPT !.stdout_done = TRUE, !.pc = "loop"]
                      ELSE [r EXCEPT !.stderr_done = TRUE, !.pc = "loop"]
                 ELSE IF ev.kind = "Stdout"
                      THEN LET a == Appended(r.stdout_text, r.stdout_truncated,
                                             ev.chunk, r.max_output_bytes)
                           IN [Seen(r, ev.kind, ev.chunk)
                                 EXCEPT !.stdout_text = a.text,
                                        !.stdout_truncated = a.truncated,
                                        !.last_activity = 0,
                                        !.pc = "loop"]
                      ELSE LET a == Appended(r.stderr_text, r.stderr_truncated,
                                             ev.chunk, r.max_output_bytes)
                           IN [Seen(r, ev.kind, ev.chunk)
                                 EXCEPT !.stderr_text = a.text,
                                        !.stderr_truncated = a.truncated,
                                        !.last_activity = 0,
                                        !.pc = "loop"]]
       ELSE /\ waited
            /\ run' = [run EXCEPT ![x].pc = "loop"]
            /\ UNCHANGED rx
    /\ UNCHANGED <<jobVars, flag, child, reader, opts, hist>>

\* -------------------------------------------------------- execute_shell
\* The text execute_shell appends to a truncated output, as one unit of text.
TruncationMarker == "\n[output truncated]"

\* format!("Command was cancelled after {}ms of inactivity.", options.timeout_ms)
TimeoutMessage(timeout_ms) ==
    "Command was cancelled after " \o ToString(timeout_ms) \o "ms of inactivity."

\* The locals of execute_shell after a successful spawn, at the top of the
\* loop.  execute_shell takes no cancellation flag.
StartedShell(timeout, ceiling) ==
    [StartedRun(timeout, ceiling, FALSE) EXCEPT !.variant = "shell"]

\* A variant of ShellResult that puts the marker on stdout whatever the
\* stream of the last chunk was.
ShellResultMarksStdout(r, status) ==
    LET marked(text, yes) == IF yes THEN text \o <<TruncationMarker>> ELSE text
        shown(text) == IF text = <<>> THEN <<"(empty)">> ELSE text
    IN [output |-> shown(marked(r.output, r.truncated)),
        stdout |-> shown(marked(r.stdout_text, r.truncated)),
        stderr |-> shown(r.stderr_text),
        error |-> IF r.timed_out THEN TimeoutMessage(r.timeout_ms) ELSE "(none)",
        exit_code |-> status.code, signal |-> status.signal,
        timed_out |-> r.timed_out, truncated |-> r.truncated]

\* The ShellResult assembled after the loop: the timeout message, the
\* truncation marker on the combined output and on the stream of the last
\* chunk appended, the placeholders of empty texts.
ShellResult(r, status) ==
    LET marked(text, yes) == IF yes THEN text \o <<TruncationMarker>> ELSE text
        shown(text) == IF text = <<>> THEN <<"(empty)">> ELSE text
    IN [output |-> shown(marked(r.output, r.truncated)),
        stdout |-> shown(marked(r.stdout_text,
                                r.truncated /\ r.last_stream # "Stderr")),
        stderr |-> shown(marked(r.stderr_text,
                                r.truncated /\ r.last_stream = "Stderr")),
        error |-> IF r.timed_out THEN TimeoutMessage(r.timeout_ms) ELSE "(none)",
        exit_code |-> status.code, signal |-> status.signal,
        timed_out |-> r.timed_out, truncated |-> r.truncated]

\* One iteration of the loop of execute_shell up to the receive: the exit
\* poll, the exit test, the inactivity timeout and the kill deadline.  elapsed
\* reads last_activity.elapsed() >= timeout_ms and reached reads
\* Instant::now() >= deadline for a deadline armed by an earlier iteration.
execute_shell_loop(x, elapsed, reached) ==
    /\ run[x].pc = "loop"
    /\ run[x].variant = "shell"
    /\ LET r == run[x]
           c == child[x]
           polled == r.exit_status = NoStatus /\ c.state = "exited"
           es == IF polled THEN c.status ELSE r.exit_status
           c0 == IF polled THEN [c EXCEPT !.reaped = TRUE] ELSE c
       IN IF LoopDone(r, es)
          THEN /\ run' = [run EXCEPT ![x] =
                            [r EXCEPT !.exit_status = es, !.pc = "returned",
                                      !.result = ShellResult(r, es)]]
               /\ child' = [child EXCEPT ![x] = c0]
          ELSE LET to == r.timeout_ms > 0 /\ ~r.timed_out /\ elapsed
                   fk == ~to /\ r.kill_armed /\ reached
                   c1 == IF to THEN terminate_child(c0) ELSE c0
                   c2 == IF fk THEN force_kill(c1) ELSE c1
               IN /\ run' = [run EXCEPT ![x] =
                               [Signalled(r, c0, IF to THEN 1 ELSE 0,
                                          IF fk THEN 1 ELSE 0)
                                  EXCEPT !.exit_status = es,
                                         !.timed_out = @ \/ to,
                                         !.kill_armed = (@ \/ to) /\ ~fk,
                                         !.kill_deadline =
                                             IF to THEN KillGraceMs ELSE @,
                                         !.pc = "recv", !.recv_waited = 0]]
                  /\ child' = [child EXCEPT ![x] = c2]
    /\ UNCHANGED <<jobVars, flag, reader, rx, opts, hist>>

\* A variant of ShellData that resets the inactivity clock only for a chunk
\* of which something is appended.
ShellDataKeepsClock(r, kind, chunk) ==
    LET remaining == saturating_sub(r.max_output_bytes, r.total_bytes) IN
    IF r.truncated \/ remaining = 0 THEN [r EXCEPT !.truncated = TRUE]
    ELSE LET cut == Len(chunk) > remaining
             slice == IF cut THEN SubSeq(chunk, 1, remaining) ELSE chunk
             text == from_utf8_lossy(slice)
         IN [r EXCEPT !.last_activity = 0,
                      !.truncated = cut,
                      !.output = @ \o text,
                      !.stdout_text = IF kind = "Stdout" THEN @ \o text ELSE @,
                      !.stderr_text = IF kind = "Stderr" THEN @ \o text ELSE @,
                      !.total_bytes = @ + Len(slice),
                      !.last_stream = kind]

\* The handling of one data event by execute_shell: the ceiling is counted
\* over both streams in total_bytes.
ShellData(r, kind, chunk) ==
    IF r.truncated THEN [r EXCEPT !.last_activity = 0]
    ELSE LET remaining == saturating_sub(r.max_output_bytes, r.total_bytes) IN
         IF remaining = 0
         THEN [r EXCEPT !.last_activity = 0, !.truncated = TRUE]
         ELSE LET cut == Len(chunk) > remaining
                  slice == IF cut THEN SubSeq(chunk, 1, remaining) ELSE chunk
                  text == from_utf8_lossy(slice)
              IN [r EXCEPT !.last_activity = 0,
                           !.truncated = cut,
                           !.output = @ \o text,
                           !.stdout_text = IF kind = "Stdout" THEN @ \o text ELSE @,
                           !.stderr_text = IF kind = "Stderr" THEN @ \o text ELSE @,
                           !.total_bytes = @ + Len(slice),
                           !.last_stream = kind]

\* rx.recv_timeout(100 ms) of execute_shell and the processing of at most one
\* event.
execute_shell_recv(x, waited) ==
    /\ run[x].pc = "recv"
    /\ run[x].variant = "shell"
    /\ LET r == run[x] IN
       IF rx[x] # <<>>
       THEN LET ev == Head(rx[x])
                r1 == IF ev.type = "Data"
                      THEN ShellData(Seen(r, ev.kind, ev.chunk), ev.kind, ev.chunk)
                      ELSE IF ev.kind = "Stdout"
                           THEN [r EXCEPT !.stdout_done = TRUE]
                           ELSE [r EXCEPT !.stderr_done = TRUE]
            IN /\ rx' = [rx EXCEPT ![x] = Tail(@)]
               /\ run' = [run EXCEPT ![x] =
                            [r1 EXCEPT !.pc = "loop",
                                       !.since_data =
                                           IF ev.type = "Data" THEN 0 ELSE @]]
       ELSE /\ waited
            /\ run' = [run EXCEPT ![x].pc = "loop"]
            /\ UNCHANGED rx
    /\ UNCHANGED <<jobVars, flag, child, reader, opts, hist>>

\* ------------------------------------------------------------ the JobStore
\* Option<T>: None is the empty sequence, Some(v) the sequence <<v>>.
Some(v) == <<v>>
Null == <<>>

\* Utc::now() in the specifications that do not follow the wall clock.
Untimed == 0

\* JobStore::create_job: the row inserted for a fresh id at the instant now,
\* status queued, with the session and run ids of the store.
create_job(table, id, task, now) ==
    [i \in DOMAIN table \cup {id} |->
       IF i = id
       THEN [id |-> id, status |-> "queued", task |-> task,
             agent_id |-> Some("agent"), command_id |-> Null,
             payload_json |-> Some("args"),
             result_json |-> Null, error |-> Null,
             created_at |-> now, updated_at |-> now,
             session_id |-> "session", run_id |-> Some("run")]
       ELSE table[i]]

\* A variant of update_job_status that writes the row anew (INSERT OR
\* REPLACE): a row is created for an unknown id, and the columns the call
\* does not name take their defaults.
replace_job_status(table, job_id, status, result_json, error, now) ==
    [i \in DOMAIN table \cup {job_id} |->
       IF i = job_id
       THEN [id |-> job_id, status |-> status, task |-> "",
             agent_id |-> Null, command_id |-> Null, payload_json |-> Null,
             result_json |-> result_json, error |-> error,
             created_at |-> now, updated_at |-> now,
             session_id |-> "session", run_id |-> Null]
       ELSE table[i]]

\* JobStore::update_job_status up to the end of its statement: UPDATE ... SET
\* status, result_json, error, updated_at WHERE id = job_id, at the instant
\* now.  No row is touched when the id is unknown.
update_job_status(table, job_id, status, result_json, error, now) ==
    [i \in DOMAIN table |->
       IF i = job_id
       THEN [table[i] EXCEPT !.status = status, !.result_json = result_json,
                             !.error = error, !.updated_at = now]
       ELSE table[i]]

\* JobStore::get_job: SELECT * FROM subagent_jobs WHERE id = ?1, the row when
\* there is one.
get_job(table, job_id) ==
    IF job_id \in DOMAIN table THEN Some(table[job_id]) ELSE Null

\* JobStore::append_event
append_event(log, job_id, type, status) ==
    [log EXCEPT ![job_id] = Append(@, [type |-> type, status |-> status])]

\* ------------------------------------------------------- the tool handlers
\* What resolve_agent_and_command and the environment give a call: a command
\* with an exec list, a command whose exec list is empty, or no exec, which
\* selects the AI mode driven by SUBAGENT_LLM_CMD.
CommandKinds == {"exec", "exec_empty", "ai"}

\* The call the RPC loop executes.  A cancel call remembers what was true
\* when it arrived: whether the id was registered, and whether its job had
\* completely finished (late).
Idle == [op |-> "idle", job |-> 0, kind |-> "none", registered |-> FALSE,
         late |-> FALSE]
NoTask == [pc |-> "none", status |-> "error"]

\* The status the handlers derive from a RunResult:
\* result.exit_code.unwrap_or(0) == 0 && !result.timed_out
RunOk(result) ==
    /\ (IF result.exit_code = None THEN "0" ELSE result.exit_code) = "0"
    /\ ~result.timed_out

\* The payload json!({"status": .., "exit_code": .., "error": .., ..}) of a result.
ResultPayload(status, result) ==
    [status |-> status, exit_code |-> result.exit_code, signal |-> result.signal,
     error |-> result.error, timed_out |-> result.timed_out]

\* The payload of a run that produced no result.
ErrorPayload(err) ==
    [status |-> "error", exit_code |-> None, signal |-> None, error |-> err,
     timed_out |-> FALSE]

\* run_command up to the loop, for a call made by job x: on success the child
\* and the two readers are spawned and the locals initialised.
Spawn(x, timeout, has_flag) ==
    /\ run' = [run EXCEPT ![x] = StartedRun(timeout, opts.max_output_bytes, has_flag)]
    /\ \E ig \in BOOLEAN : child' = [child EXCEPT ![x] = SpawnedChild(ig)]
    /\ reader' = [reader EXCEPT ![x] = [s \in StreamKind |-> "reading"]]

\* run_command returned: its locals, the reaped child and the ended readers
\* are dropped.
Release(x) ==
    /\ run' = [run EXCEPT ![x] = IdleRun]
    /\ child' = [child EXCEPT ![x] = NoChild]

\* The ways a call returns Err before the loop of run_command: an empty exec
\* list ("Command is required"), a failed spawn, a failed write of the stdin
\* payload, no SUBAGENT_LLM_CMD in AI mode.
SetupErrors(kind) ==
    IF kind = "exec_empty" THEN {"Command is required"}
    ELSE IF kind = "exec" THEN {"spawn failed"}
    ELSE {"spawn failed", "stdin write failed", "AI not configured"}

\* The timeout option a call of the given kind passes to run_command.
TimeoutOf(kind) == IF kind = "ai" THEN opts.ai_timeout_ms ELSE opts.timeout_ms

\* The jobs of one behaviour run one after the other: a call that creates a
\* job arrives when no background task is alive (jobs share nothing but the
\* RPC thread, the rows of their own id and the registry entry of their own id).
Quiet == \A j \in JobIds : bg[j].pc \in {"none", "finished"}

\* A variant of SetRunning that leaves the row as create_job inserted it.
SetRunningSkipped(table, id) == table

\* job_store.borrow().update_job_status(&job.id, "running", None, None)?
\* the statement of both handlers that follows create_job.
SetRunning(table, id) ==
    update_job_status(table, id, "running", Null, Null, Untimed)

\* start_sub_agent_async up to the return of create_job: the INSERT is
\* committed, and every connection to the database can read the queued row.
start_sub_agent_async(kind) ==
    /\ handler.op = "idle"
    /\ Quiet
    /\ next_id < MaxJobs
    /\ LET id == next_id + 1 IN
       /\ next_id' = id
       /\ jobs' = create_job(jobs, id, "task", Untimed)
       /\ handler' = [Idle EXCEPT !.op = "start_sub_agent_async", !.job = id,
                                  !.kind = kind]
    /\ UNCHANGED <<events, async_registry, flag, ret, bg, run, child, reader, rx,
                   opts, hist>>

\* start_sub_agent_async from create_job to its return: the job is moved to
\* running, its start event appended, a fresh flag registered under its id,
\* the background thread spawned and the job id returned.
start_sub_agent_async_spawn ==
    /\ handler.op = "start_sub_agent_async"
    /\ LET id == handler.job
           kind == handler.kind IN
       /\ jobs' = SetRunning(jobs, id)
       /\ events' = append_event(events, id, "start", "running")
       /\ flag' = [flag EXCEPT ![id] = FALSE]
       /\ async_registry' = async_registry \cup {id}
       /\ hist' = [hist EXCEPT ![id].inserted = @ + 1]
       /\ bg' = [bg EXCEPT ![id] = [pc |-> kind, status |-> "error"]]
       /\ ret' = [ret EXCEPT ![id] = "job_id"]
    /\ handler' = Idle
    /\ UNCHANGED <<next_id, run, child, reader, rx, opts>>

\* let _ = async_registry_clone.lock().map(|mut map| map.remove(&job_id))
\* The thread ends after it: the last references to the flag are dropped.
Removed(j) ==
    /\ async_registry' = async_registry \ {j}
    /\ flag' = [flag EXCEPT ![j] = FALSE]
    /\ hist' = [hist EXCEPT ![j].removed =
                  @ + (IF j \in async_registry THEN 1 ELSE 0)]

\* A variant of bg_open_failed that returns without touching the registry.
bg_open_failed_leak(j) ==
    /\ bg' = [bg EXCEPT ![j].pc = "finished"]
    /\ UNCHANGED <<async_registry, flag, hist>>

\* JobStore::new failed in the background thread: the registry entry is
\* removed and the thread returns.
bg_open_failed(j) ==
    /\ bg' = [bg EXCEPT ![j].pc = "finished"]
    /\ Removed(j)

\* let _ = job_store.update_job_status(&job_id, job_status, Some(payload), None)
\* on the connection of the background thread: the statement updates the row,
\* or fails (the database is locked by another connection, or cannot be
\* written) and the error is dropped.  hist remembers what was written.
Persist(j, job_status, payload) ==
    \/ /\ jobs' = update_job_status(jobs, j, job_status, payload, Null, Untimed)
       /\ hist' = [hist EXCEPT ![j].persisted = job_status]
    \/ UNCHANGED <<jobs, hist>>

\* The background thread from its start to its first blocking point.  It
\* opens its own JobStore connection; when that fails it removes the registry
\* entry and ends.  Otherwise it calls run_command with the shared flag and
\* enters its loop, or run_command returns a setup error (or no AI command is
\* configured) and the error payload is persisted.
bg_start(j) ==
    /\ bg[j].pc \in CommandKinds
    /\ \/ /\ bg_open_failed(j)
          /\ UNCHANGED <<jobs, run, child, reader>>
       \/ /\ bg[j].pc # "exec_empty"
          /\ Spawn(j, TimeoutOf(bg[j].pc), TRUE)
          /\ bg' = [bg EXCEPT ![j].pc = "running"]
          /\ UNCHANGED <<jobs, async_registry, flag, hist>>
       \/ /\ \E err \in SetupErrors(bg[j].pc) :
               Persist(j, "error", Some(ErrorPayload(err)))
          /\ bg' = [bg EXCEPT ![j].pc = "event", ![j].status = "error"]
          /\ UNCHANGED <<async_registry, flag, run, child, reader>>
    /\ UNCHANGED <<events, next_id, handler, ret, rx, opts>>

\* The status the background thread derives from the result of run_command.
bg_status(result) ==
    IF result.error = "cancelled" THEN "cancelled"
    ELSE IF RunOk(result) THEN "ok"
    ELSE "error"

\* The job status the background thread persists for its local status.
bg_job_status(status) ==
    IF status = "ok" THEN "done"
    ELSE IF status = "cancelled" THEN "cancelled"
    ELSE "error"

\* run_command returned Ok(result) to the background thread, which derives the
\* status and persists it.
bg_persist(j) ==
    /\ bg[j].pc = "running"
    /\ run[j].pc = "returned"
    /\ LET status == bg_status(run[j].result) IN
       /\ Persist(j, bg_job_status(status),
                  Some(ResultPayload(status, run[j].result)))
       /\ bg' = [bg EXCEPT ![j].pc = "event", ![j].status = status]
    /\ Release(j)
    /\ UNCHANGED <<events, async_registry, flag, next_id, handler, ret, reader, rx,
                   opts>>

\* let _ = job_store.append_event(&job_id, "finish", ..)
bg_event(j) ==
    /\ bg[j].pc = "event"
    /\ events' = append_event(events, j, "finish", bg_job_status(bg[j].status))
    /\ bg' = [bg EXCEPT ![j].pc = "remove"]
    /\ UNCHANGED <<jobs, async_registry, flag, next_id, handler, ret, run, child,
                   reader, rx, opts, hist>>

\* The last statement of the background thread: the registry entry is removed.
bg_remove(j) ==
    /\ bg[j].pc = "remove"
    /\ Removed(j)
    /\ bg' = [bg EXCEPT ![j] = [pc |-> "finished", status |-> "error"]]
    /\ UNCHANGED <<jobs, events, next_id, handler, ret, run, child, reader, rx,
                   opts>>

\* run_sub_agent up to the return of create_job: the queued row is committed.
run_sub_agent(kind) ==
    /\ handler.op = "idle"
    /\ Quiet
    /\ next_id < MaxJobs
    /\ LET id == next_id + 1 IN
       /\ next_id' = id
       /\ jobs' = create_job(jobs, id, "task", Untimed)
       /\ handler' = [Idle EXCEPT !.op = "run_sub_agent_created", !.job = id,
                                  !.kind = kind]
    /\ UNCHANGED <<events, async_registry, flag, ret, bg, run, child, reader, rx,
                   opts, hist>>

\* run_sub_agent from create_job to the loop of run_command: the job is moved
\* to running and its start event appended; then run_command is called
\* without a flag.  A setup error, or AI mode without SUBAGENT_LLM_CMD,
\* returns the error to the caller through `?`.
run_sub_agent_run ==
    /\ handler.op = "run_sub_agent_created"
    /\ LET id == handler.job
           kind == handler.kind IN
       /\ jobs' = SetRunning(jobs, id)
       /\ events' = append_event(events, id, "start", "running")
       /\ \/ /\ kind # "exec_empty"
             /\ Spawn(id, TimeoutOf(kind), FALSE)
             /\ handler' = [Idle EXCEPT !.op = "run_sub_agent", !.job = id]
             /\ UNCHANGED ret
          \/ /\ ret' = [ret EXCEPT ![id] = "error"]
             /\ handler' = Idle
             /\ UNCHANGED <<run, child, reader>>
    /\ UNCHANGED <<async_registry, flag, next_id, bg, rx, opts, hist>>

\* run_command returned Ok(result) to run_sub_agent: the terminal status and
\* the finish event are written and the payload returned.
run_sub_agent_finish ==
    /\ handler.op = "run_sub_agent"
    /\ run[handler.job].pc = "returned"
    /\ LET j == handler.job
           result == run[j].result
           status == IF RunOk(result) THEN "ok" ELSE "error"
           job_status == IF status = "ok" THEN "done" ELSE "error"
       IN /\ jobs' = update_job_status(jobs, j, job_status,
                        Some(ResultPayload(status, result)),
                        IF result.error = None THEN Null ELSE Some(result.error),
                        Untimed)
          /\ events' = append_event(events, j, "finish", job_status)
          /\ ret' = [ret EXCEPT ![j] = "ok"]
          /\ Release(j)
    /\ handler' = Idle
    /\ UNCHANGED <<async_registry, flag, next_id, bg, reader, rx, opts, hist>>

\* The run of an asynchronous job has completely finished: its background
\* thread has ended after persisting a terminal status, appending the finish
\* event and removing the registry entry.
Finished(j) ==
    /\ bg[j].pc = "finished"
    /\ j \notin async_registry
    /\ jobs[j].status \in Terminal
    /\ \E i \in DOMAIN events[j] : events[j][i].type = "finish"

\* cancel_sub_agent_job, first half: the flag registered under the id, if
\* any, is set.
cancel_sub_agent_job(job_id) ==
    /\ handler.op = "idle"
    /\ flag' = IF job_id \in async_registry THEN [flag EXCEPT ![job_id] = TRUE]
               ELSE flag
    /\ handler' = [Idle EXCEPT !.op = "cancel", !.job = job_id,
                               !.registered = job_id \in async_registry,
                               !.late = Finished(job_id)]
    /\ hist' = [hist EXCEPT ![job_id].cancel_live =
                  @ \/ (job_id \in async_registry /\ child[job_id].state = "running")]
    /\ UNCHANGED <<jobs, events, async_registry, next_id, ret, bg, run, child,
                   reader, rx, opts>>

\* cancel_sub_agent_job, second half:
\* update_job_status(job_id, "cancelled", None, Some("cancelled")) and return.
cancel_update ==
    /\ handler.op = "cancel"
    /\ jobs' = update_job_status(jobs, handler.job, "cancelled", Null,
                                 Some("cancelled"), Untimed)
    /\ handler' = Idle
    /\ UNCHANGED <<events, async_registry, flag, next_id, ret, bg, run, child,
                   reader, rx, opts, hist>>

\* get_sub_agent_status: the status of the row get_job finds for the id, or
\* the error "Job not found".  The handler writes nothing.
get_sub_agent_status(job_id) ==
    LET job == get_job(jobs, job_id) IN
    IF Len(job) = 0 THEN "Job not found" ELSE job[1].status

\* The control loop of the run_command call of job j; the clock comparisons
\* are inputs.
JobLoop(j) == \E elapsed \in BOOLEAN, reached \in BOOLEAN :
                 run_command_loop(j, elapsed, reached)
JobRecv(j) == \E waited \in BOOLEAN : run_command_recv(j, waited)

\* The child of a job and the readers of its pipes.  The children of Spec
\* write no output: the status of a job does not read the captured text.
JobEnvironment(j) ==
    \/ ChildExit(j)
    \/ \E s \in StreamKind : ChildClose(j, s)
    \/ \E s \in StreamKind : spawn_reader(j, s)

IdleJobState ==
    /\ jobs = <<>>
    /\ events = [x \in JobIds |-> <<>>]
    /\ async_registry = {}
    /\ next_id = 0
    /\ handler = Idle
    /\ ret = [x \in JobIds |-> "none"]
    /\ bg = [x \in JobIds |-> NoTask]
    /\ flag = [x \in JobIds |-> FALSE]
    /\ hist = [x \in JobIds |-> NoHist]

\* The server after main: an empty registry, no call in progress.  The two
\* timeout options are drawn together.
Init ==
    /\ IdleJobState
    /\ \E t \in Timeouts, c \in OutputCeilings :
         opts = [timeout_ms |-> t, ai_timeout_ms |-> t, max_output_bytes |-> c]
    /\ run = [x \in JobIds |-> IdleRun]
    /\ child = [x \in JobIds |-> NoChild]
    /\ reader = [x \in JobIds |-> [s \in StreamKind |-> "stopped"]]
    /\ rx = [x \in JobIds |-> <<>>]

Next ==
    \/ \E kind \in CommandKinds : start_sub_agent_async(kind)
    \/ start_sub_agent_async_spawn
    \/ \E kind \in CommandKinds : run_sub_agent(kind)
    \/ run_sub_agent_run
    \/ run_sub_agent_finish
    \/ \E j \in JobIds : cancel_sub_agent_job(j)
    \/ cancel_update
    \/ \E j \in JobIds : bg_start(j)
    \/ \E j \in JobIds : bg_persist(j)
    \/ \E j \in JobIds : bg_event(j)
    \/ \E j \in JobIds : bg_remove(j)
    \/ \E j \in JobIds : JobLoop(j)
    \/ \E j \in JobIds : JobRecv(j)
    \/ \E j \in JobIds : JobEnvironment(j)

Spec == Init /\ [][Next]_vars

\* ------------------------------------------- one execution against the clock
\* The execution SpecTimed follows.
TheExec == CHOOSE x \in JobIds : \A y \in JobIds : x <= y

\* The clock start_time.elapsed() is followed up to here: one quantum past the
\* largest timeout, the kill grace and two polling slices.
ElapsedCap == RecvTimeoutMs + KillGraceMs + 3 * RecvTimeoutMs
\* The time since the first graceful request is followed up to here.
SinceTermCap == KillGraceMs + 2 * RecvTimeoutMs
\* The time since the last data event is followed up to here, past the
\* largest timeout.
ActivityCap == RecvTimeoutMs + Quantum
\* The time a set flag has gone unread is followed up to here.
FlagAgeCap == 2 * RecvTimeoutMs

\* run_command has spawned the child and the two readers and is at the top of
\* its loop, with or without a cancellation flag.
InitTimed ==
    /\ IdleJobState
    /\ \E t \in Timeouts, c \in OutputCeilings, hf \in BOOLEAN :
         /\ opts = [timeout_ms |-> t, ai_timeout_ms |-> t, max_output_bytes |-> c]
         /\ run = [x \in JobIds |->
                     IF x = TheExec THEN StartedRun(t, c, hf) ELSE IdleRun]
    /\ \E ig \in BOOLEAN :
         child = [x \in JobIds |->
                    IF x = TheExec THEN SpawnedChild(ig) ELSE NoChild]
    /\ reader = [x \in JobIds |-> [s \in StreamKind |->
                    IF x = TheExec THEN "reading" ELSE "stopped"]]
    /\ rx = [x \in JobIds |-> <<>>]

TimedLoop ==
    run_command_loop(TheExec,
                     run[TheExec].elapsed >= run[TheExec].timeout_ms,
                     run[TheExec].kill_deadline <= 0)

TimedRecv ==
    run_command_recv(TheExec, run[TheExec].recv_waited >= RecvTimeoutMs)

\* flag.store(true) of cancel_sub_agent_job, on the RPC thread.
TimedCancel ==
    /\ run[TheExec].has_flag
    /\ run[TheExec].pc # "returned"
    /\ ~flag[TheExec]
    /\ flag' = [flag EXCEPT ![TheExec] = TRUE]
    /\ UNCHANGED <<jobVars, run, child, reader, rx, opts, hist>>

\* A reader thread has something to send.
ReaderReady(x, s) ==
    /\ reader[x][s] = "reading"
    /\ \/ child[x].pipe[s] # <<>>
       \/ ~child[x].open[s] /\ child[x].state # "none"

Min(a, b) == IF a < b THEN a ELSE b

\* Time passes, a quantum at a time and never past the end of the 100 ms
\* wait, only while the control loop is blocked in
\* recv_timeout on an empty channel whose timeout has not expired and no
\* reader has an event to send.  The two clocks of the timeout are followed
\* while the code reads them: the time since the start when run_command has
\* timeout_ms > 0, the time since the last data event until the run is marked
\* timed_out.
Tick ==
    /\ run[TheExec].pc = "recv"
    /\ rx[TheExec] = <<>>
    /\ run[TheExec].recv_waited < RecvTimeoutMs
    /\ \A s \in StreamKind : ~ReaderReady(TheExec, s)
    /\ LET dt == Min(Quantum, RecvTimeoutMs - run[TheExec].recv_waited) IN
       run' = [run EXCEPT ![TheExec] =
                 [@ EXCEPT !.recv_waited = @ + dt,
                           !.elapsed = IF run[TheExec].timeout_ms > 0
                                          /\ run[TheExec].variant = "runner"
                                       THEN Min(@ + dt, ElapsedCap) ELSE @,
                           !.since_data =
                               IF run[TheExec].variant # "shell" THEN @
                               ELSE IF run[TheExec].timeout_ms > 0
                                       /\ ~run[TheExec].timed_out
                               THEN Min(@ + dt, ActivityCap)
                               ELSE ActivityCap,
                           !.last_activity =
                               IF run[TheExec].timeout_ms > 0
                                  /\ ~run[TheExec].timed_out
                               THEN Min(@ + dt, ActivityCap)
                               ELSE ActivityCap,
                           !.since_flag =
                               IF run[TheExec].has_flag /\ flag[TheExec]
                                  /\ ~run[TheExec].cancelled
                               THEN Min(@ + dt, FlagAgeCap) ELSE @,
                           !.kill_deadline = saturating_sub(@, dt),
                           !.since_term = IF run[TheExec].term_count > 0
                                          THEN Min(@ + dt, SinceTermCap)
                                          ELSE @]]
    /\ UNCHANGED <<jobVars, flag, child, reader, rx, opts, hist>>

\* One representative chunk: its bytes do not bear on timing.
TimedChunks == { <<"a">> }

TimedEnvironment ==
    \/ ChildExit(TheExec)
    \/ \E s \in StreamKind : ChildClose(TheExec, s)
    \/ \E s \in StreamKind, n \in TimedChunks : ChildWrite(TheExec, s, n)
    \/ \E s \in StreamKind : spawn_reader(TheExec, s)

NextTimed ==
    \/ TimedLoop
    \/ TimedRecv
    \/ TimedCancel
    \/ Tick
    \/ TimedEnvironment

SpecTimed == InitTimed /\ [][NextTimed]_vars

\* ------------------------------------- one execution and its captured output
\* The values of timeout_ms in SpecExec; a value <= 0 disables the timeout.
ExecTimeouts == Timeouts \cup {-1}

\* The value of max_output_bytes in SpecExec: one byte less than the longest
\* chunk.
ExecCeilings == {MaxChunkLen - 1}

\* The chunks the child of SpecExec writes: one byte, the longest chunk, and
\* one byte that is not valid UTF-8.
ExecChunks == { <<"a">>, [i \in 1..MaxChunkLen |-> "a"], <<"xFF">> }

\* run_command or execute_shell has spawned the child and the two readers and
\* is at the top of its loop.  Only run_command may hold a cancellation flag.
\* The child ignores SIGTERM or not, or leaves descendants behind.
InitExec ==
    /\ IdleJobState
    /\ \E t \in ExecTimeouts, c \in ExecCeilings :
         /\ opts = [timeout_ms |-> t, ai_timeout_ms |-> t, max_output_bytes |-> c]
         /\ \E r \in {StartedShell(t, c)}
                     \cup {StartedRun(t, c, hf) : hf \in BOOLEAN} :
              run = [x \in JobIds |-> IF x = TheExec THEN r ELSE IdleRun]
    /\ \E c \in {SpawnedChild(ig) : ig \in BOOLEAN}
                \cup {WithDescendants(SpawnedChild(FALSE))} :
         child = [x \in JobIds |-> IF x = TheExec THEN c ELSE NoChild]
    /\ reader = [x \in JobIds |-> [s \in StreamKind |->
                    IF x = TheExec THEN "reading" ELSE "stopped"]]
    /\ rx = [x \in JobIds |-> <<>>]

\* The control loop of the execution; the clock comparisons are inputs.
ExecLoop ==
    \E elapsed \in BOOLEAN, reached \in BOOLEAN :
        \/ run_command_loop(TheExec, elapsed, reached)
        \/ execute_shell_loop(TheExec, elapsed, reached)

ExecRecv ==
    \E waited \in BOOLEAN :
        \/ run_command_recv(TheExec, waited)
        \/ execute_shell_recv(TheExec, waited)

\* The running child writes the bytes n to one of its output streams, once
\* the reader has taken what it wrote there before.
ExecWrite(x, s, n) ==
    /\ child[x].state = "running"
    /\ child[x].open[s]
    /\ child[x].pipe[s] = <<>>
    /\ run[x].chunks < MaxExecChunks
    /\ child' = [child EXCEPT ![x].pipe[s] = Append(@, n)]
    /\ run' = [run EXCEPT ![x].chunks = @ + 1,
                          ![x].wrote[s] = IF run[x].traced THEN @ \o n ELSE @]
    /\ UNCHANGED <<jobVars, flag, reader, rx, opts, hist>>

ExecEnvironment ==
    \/ ChildExit(TheExec)
    \/ \E s \in StreamKind : ChildClose(TheExec, s)
    \/ \E s \in StreamKind, n \in ExecChunks : ExecWrite(TheExec, s, n)
    \/ \E s \in StreamKind : spawn_reader(TheExec, s)

NextExec ==
    \/ ExecLoop
    \/ ExecRecv
    \/ TimedCancel
    \/ ExecEnvironment

SpecExec == InitExec /\ [][NextExec]_vars

\* ------------------------------------ execute_shell against the clock
\* The chunks the child of SpecShellTimed writes: one byte and the longest
\* chunk.
ShellTimedChunks == { <<"a">>, [i \in 1..MaxChunkLen |-> "a"] }

\* execute_shell has spawned the shell and the two readers, set last_activity
\* and is at the top of its loop; the ceiling is one byte below the longest
\* chunk.
InitShellTimed ==
    /\ IdleJobState
    /\ \E t \in Timeouts :
         /\ opts = [timeout_ms |-> t, ai_timeout_ms |-> t,
                    max_output_bytes |-> MaxChunkLen - 1]
         /\ run = [x \in JobIds |->
                     IF x = TheExec THEN StartedShell(t, MaxChunkLen - 1)
                     ELSE IdleRun]
    /\ \E ig \in BOOLEAN :
         child = [x \in JobIds |->
                    IF x = TheExec THEN SpawnedChild(ig) ELSE NoChild]
    /\ reader = [x \in JobIds |-> [s \in StreamKind |->
                    IF x = TheExec THEN "reading" ELSE "stopped"]]
    /\ rx = [x \in JobIds |-> <<>>]

ShellTimedLoop ==
    execute_shell_loop(TheExec,
                       run[TheExec].last_activity >= run[TheExec].timeout_ms,
                       run[TheExec].kill_deadline <= 0)

ShellTimedRecv ==
    execute_shell_recv(TheExec, run[TheExec].recv_waited >= RecvTimeoutMs)

ShellTimedEnvironment ==
    \/ ChildExit(TheExec)
    \/ \E s \in StreamKind : ChildClose(TheExec, s)
    \/ \E s \in StreamKind, n \in ShellTimedChunks : ExecWrite(TheExec, s, n)
    \/ \E s \in StreamKind : spawn_reader(TheExec, s)

NextShellTimed ==
    \/ ShellTimedLoop
    \/ ShellTimedRecv
    \/ Tick
    \/ ShellTimedEnvironment

SpecShellTimed == InitShellTimed /\ [][NextShellTimed]_vars

\* ----------------------------------------------- the readers and the pipes
\* One execution without a timeout and without a flag, in which nothing is
\* assumed of the speed of the control loop: only the two reader threads are
\* scheduled fairly.
InitPipes ==
    /\ InitExec
    /\ run[TheExec].timeout_ms = 0
    /\ ~run[TheExec].has_flag

NextPipes ==
    \/ ExecLoop
    \/ ExecRecv
    \/ ExecEnvironment

SpecPipes ==
    /\ InitPipes
    /\ [][NextPipes]_vars
    /\ \A s \in StreamKind : WF_vars(spawn_reader(TheExec, s))

\* ------------------------------------------------ the return of an execution
\* One execution of run_command (without a flag) or of execute_shell in which
\* the control loop and the two reader threads are scheduled fairly.  Nothing
\* is assumed of the child or of the processes it started: they write, close
\* their streams and end when they choose to.
InitReturn ==
    /\ InitExec
    /\ ~run[TheExec].has_flag

NextReturn ==
    \/ ExecLoop
    \/ ExecRecv
    \/ ExecEnvironment

SpecReturn ==
    /\ InitReturn
    /\ [][NextReturn]_vars
    /\ WF_vars(ExecLoop)
    /\ WF_vars(ExecRecv)
    /\ \A s \in StreamKind : WF_vars(spawn_reader(TheExec, s))

\* ---------------------------------------------- the capture of the output
\* The values of max_output_bytes in SpecCapture: less than, and as much as,
\* the longest chunk.
CaptureCeilings == {MaxChunkLen - 1, MaxChunkLen}

\* The chunks the child of SpecCapture writes: every chunk a read() returns
\* whole, and one more bytes long than the buffer of a reader.
CaptureChunks ==
    Chunks \cup { [i \in 1..(BufferLen + 1) |-> IF i = 1 THEN "xFF" ELSE "a"] }

\* One traced execution of run_command or of execute_shell without timeout
\* and without flag, at the top of its loop; the child writes chunks of every
\* length and content.
InitCapture ==
    /\ IdleJobState
    /\ \E c \in CaptureCeilings :
         /\ opts = [timeout_ms |-> 0, ai_timeout_ms |-> 0, max_output_bytes |-> c]
         /\ \E r \in {StartedRun(0, c, FALSE), StartedShell(0, c)} :
              run = [x \in JobIds |->
                       IF x = TheExec THEN [r EXCEPT !.traced = TRUE]
                       ELSE IdleRun]
    /\ child = [x \in JobIds |->
                  IF x = TheExec THEN SpawnedChild(FALSE) ELSE NoChild]
    /\ reader = [x \in JobIds |-> [s \in StreamKind |->
                    IF x = TheExec THEN "reading" ELSE "stopped"]]
    /\ rx = [x \in JobIds |-> <<>>]

CaptureEnvironment ==
    \/ ChildExit(TheExec)
    \/ \E s \in StreamKind : ChildClose(TheExec, s)
    \/ \E s \in StreamKind, n \in CaptureChunks : ExecWrite(TheExec, s, n)
    \/ \E s \in StreamKind : spawn_reader(TheExec, s)

NextCapture ==
    \/ ExecLoop
    \/ ExecRecv
    \/ CaptureEnvironment

SpecCapture == InitCapture /\ [][NextCapture]_vars

\* ------------------------------------------------- the cancel call in steps
\* One asynchronous job, from the moment its background thread has called
\* run_command with the registered flag, and the cancel calls for it.  The
\* statements of cancel_sub_agent_job are followed one by one: the store to the
\* flag, the UPDATE, and the read of the row that the handler returns.
InitCancel ==
    /\ jobs = SetRunning(create_job(<<>>, TheExec, "task", Untimed), TheExec)
    /\ events = append_event([x \in JobIds |-> <<>>], TheExec, "start", "running")
    /\ async_registry = {TheExec}
    /\ next_id = TheExec
    /\ handler = Idle
    /\ ret = [x \in JobIds |-> IF x = TheExec THEN "job_id" ELSE "none"]
    /\ bg = [x \in JobIds |->
               IF x = TheExec THEN [pc |-> "running", status |-> "error"]
               ELSE NoTask]
    /\ flag = [x \in JobIds |-> FALSE]
    /\ hist = [x \in JobIds |->
                 IF x = TheExec THEN [NoHist EXCEPT !.inserted = 1] ELSE NoHist]
    /\ \E t \in Timeouts, c \in OutputCeilings :
         /\ opts = [timeout_ms |-> t, ai_timeout_ms |-> t, max_output_bytes |-> c]
         /\ run = [x \in JobIds |->
                     IF x = TheExec THEN StartedRun(t, c, TRUE) ELSE IdleRun]
    /\ \E ig \in BOOLEAN :
         child = [x \in JobIds |->
                    IF x = TheExec THEN SpawnedChild(ig) ELSE NoChild]
    /\ reader = [x \in JobIds |-> [s \in StreamKind |->
                    IF x = TheExec THEN "reading" ELSE "stopped"]]
    /\ rx = [x \in JobIds |-> <<>>]

\* update_job_status(job_id, "cancelled", None, Some("cancelled")) up to the
\* end of its UPDATE statement, which is committed when it returns.
cancel_statement ==
    /\ handler.op = "cancel"
    /\ jobs' = update_job_status(jobs, handler.job, "cancelled", Null,
                                 Some("cancelled"), Untimed)
    /\ handler' = [handler EXCEPT !.op = "cancel_return"]
    /\ UNCHANGED <<events, async_registry, flag, next_id, ret, bg, run, child,
                   reader, rx, opts, hist>>

\* The rest of the handler: self.get_job(job_id) reads the row back and the
\* handler returns it as text.
cancel_return ==
    /\ handler.op = "cancel_return"
    /\ handler' = Idle
    /\ UNCHANGED <<jobs, events, async_registry, flag, next_id, ret, bg, run,
                   child, reader, rx, opts, hist>>

NextCancel ==
    \/ cancel_sub_agent_job(TheExec)
    \/ cancel_statement
    \/ cancel_return
    \/ bg_persist(TheExec)
    \/ bg_event(TheExec)
    \/ bg_remove(TheExec)
    \/ JobLoop(TheExec)
    \/ JobRecv(TheExec)
    \/ JobEnvironment(TheExec)

SpecCancel == InitCancel /\ [][NextCancel]_vars

\* ------------------------------------------------------- the JobStore alone
\* The statuses a caller passes to update_job_status.
StoreStatuses == {"running", "done", "cancelled"}

\* A JobStore on an empty database and a caller of its functions; the clock
\* of the caller advances with every call.
InitStore ==
    /\ jobs = <<>>
    /\ events = [x \in JobIds |-> <<>>]
    /\ async_registry = {}
    /\ next_id = 0
    /\ handler = [op |-> "JobStore", called |-> "none", job_id |-> 0,
                  returned |-> Null, now |-> 0]
    /\ ret = [x \in JobIds |-> "none"]
    /\ bg = [x \in JobIds |-> NoTask]
    /\ flag = [x \in JobIds |-> FALSE]
    /\ hist = [x \in JobIds |-> NoHist]
    /\ opts = [timeout_ms |-> 0, ai_timeout_ms |-> 0,
               max_output_bytes |-> MaxChunkLen]
    /\ run = [x \in JobIds |-> IdleRun]
    /\ child = [x \in JobIds |-> NoChild]
    /\ reader = [x \in JobIds |-> [s \in StreamKind |-> "stopped"]]
    /\ rx = [x \in JobIds |-> <<>>]

\* A call of create_job: the row is inserted under the next id and returned.
StoreCreate(task) ==
    /\ handler.op = "JobStore"
    /\ handler.now < MaxStoreCalls
    /\ next_id < MaxJobs
    /\ LET id == next_id + 1
           now == handler.now + 1
       IN /\ next_id' = id
          /\ jobs' = create_job(jobs, id, task, now)
          /\ handler' = [handler EXCEPT !.called = "create_job", !.job_id = id,
                                        !.returned = get_job(jobs', id),
                                        !.now = now]
    /\ UNCHANGED <<events, async_registry, flag, ret, bg, run, child, reader, rx,
                   opts, hist>>

\* A call of update_job_status, for the id of a row or for an id no row has:
\* the statement, then self.get_job(job_id), whose result is returned.
StoreUpdate(job_id, status, result_json, error) ==
    /\ handler.op = "JobStore"
    /\ handler.now < MaxStoreCalls
    /\ LET now == handler.now + 1 IN
       /\ jobs' = update_job_status(jobs, job_id, status, result_json, error, now)
       /\ handler' = [handler EXCEPT !.called = "update_job_status",
                                     !.job_id = job_id,
                                     !.returned = get_job(jobs', job_id),
                                     !.now = now]
    /\ UNCHANGED <<events, async_registry, flag, next_id, ret, bg, run, child,
                   reader, rx, opts, hist>>

NextStore ==
    \/ \E task \in {"task", "other task"} : StoreCreate(task)
    \/ \E job_id \in JobIds, status \in StoreStatuses,
          result_json \in {Null, Some("result")},
          error \in {Null, Some("cancelled")} :
         StoreUpdate(job_id, status, result_json, error)

SpecStore == InitStore /\ [][NextStore]_vars

\* ------------------------------------------------------- one run_shell call
\* A command text is a sequence of glyphs: a blank, a word (the name of a
\* program, standing for its letters), one of the shell characters ; and &,
\* or # .  A word directly after a word would be another, longer word: the
\* texts drawn keep a blank or a shell character between two of them.
Whitespace == {" "}
Words == {"true", "rm"}
Glyphs == Whitespace \cup Words \cup {";", "&", "#"}

WellSpaced(text) ==
    \A i \in 1..(Len(text) - 1) :
       ~(text[i] \in Words \cup {"#"} /\ text[i + 1] \in Words \cup {"#"})

\* str::trim
RECURSIVE trim_start(_)
trim_start(text) ==
    IF text = <<>> \/ Head(text) \notin Whitespace THEN text
    ELSE trim_start(Tail(text))

RECURSIVE trim_end(_)
trim_end(text) ==
    IF text = <<>> \/ text[Len(text)] \notin Whitespace THEN text
    ELSE trim_end(SubSeq(text, 1, Len(text) - 1))

trim(text) == trim_end(trim_start(text))

\* The command texts of the calls: not blank.
CommandTexts ==
    { text \in UNION { [1..n -> Glyphs] : n \in 1..MaxCommandLen } :
        WellSpaced(text) /\ trim(text) # <<>> }

\* str::split_whitespace().next() of a text that starts with no blank.
RECURSIVE first_word(_)
first_word(text) ==
    IF text = <<>> \/ Head(text) \in Whitespace THEN <<>>
    ELSE <<Head(text)>> \o first_word(Tail(text))

\* utils::get_command_root
get_command_root(command) ==
    LET trimmed == trim(command) IN
    IF trimmed = <<>> THEN <<>> ELSE first_word(trimmed)

\* A variant of CommandRootError in which an allowed root is accepted without
\* looking at the deny list.
CommandRootErrorAllowWins(command_root) ==
    IF opts.allow_commands # {} /\ command_root \in opts.allow_commands
    THEN "(none)"
    ELSE IF command_root \in opts.deny_commands THEN "Command root is denied"
    ELSE IF opts.allow_commands # {} THEN "Command root is not in allowlist"
    ELSE "(none)"

\* The two list checks of the run_shell handler, the deny list first.
CommandRootError(command_root) ==
    IF command_root \in opts.deny_commands THEN "Command root is denied"
    ELSE IF opts.allow_commands # {} /\ command_root \notin opts.allow_commands
    THEN "Command root is not in allowlist"
    ELSE "(none)"

\* A path is absolute or relative and has a sequence of components, each a
\* name or "..".
AbsPath(comps) == [abs |-> TRUE, comps |-> comps]
RelPath(comps) == [abs |-> FALSE, comps |-> comps]

\* utils::resolve_within_root: root.join(target); an absolute target
\* replaces the root.
resolve_within_root(root, target) ==
    IF target.abs THEN target ELSE AbsPath(root.comps \o target.comps)

\* pathdiff::diff_paths for two absolute paths or two relative ones: the
\* components of path that follow the common prefix, after one ".." for each
\* component of base that is left.  The comparison is lexical: a ".." inside
\* path is copied, not applied.
RECURSIVE diff_components(_, _, _)
diff_components(ita, itb, comps) ==
    IF ita = <<>> /\ itb = <<>> THEN Some(comps)
    ELSE IF itb = <<>> THEN Some(comps \o ita)
    ELSE IF ita = <<>> THEN diff_components(ita, Tail(itb), comps \o <<"..">>)
    ELSE IF comps = <<>> /\ Head(ita) = Head(itb)
         THEN diff_components(Tail(ita), Tail(itb), comps)
    ELSE IF Head(itb) = ".." THEN Null
    ELSE Some(comps \o [i \in 1..Len(itb) |-> ".."] \o ita)

diff_paths(path, base) ==
    IF path.abs # base.abs
    THEN IF path.abs THEN Some(path) ELSE Null
    ELSE LET d == diff_components(path.comps, base.comps, <<>>) IN
         IF d = Null THEN Null ELSE Some(RelPath(d[1]))

\* utils::is_subpath
is_subpath(root, candidate) ==
    LET relative == diff_paths(candidate, root) IN
    IF relative = Null THEN FALSE
    ELSE LET rel == relative[1] IN
         /\ ~(rel.comps # <<>> /\ Head(rel.comps) = "..")
         /\ ~rel.abs

\* The directory an absolute path denotes when the kernel walks it: a name
\* enters a directory, ".." leaves it (the parent of / is /).
RECURSIVE Walk(_, _)
Walk(comps, at) ==
    IF comps = <<>> THEN at
    ELSE IF Head(comps) = ".."
         THEN Walk(Tail(comps),
                   IF at = <<>> THEN at ELSE SubSeq(at, 1, Len(at) - 1))
    ELSE Walk(Tail(comps), Append(at, Head(comps)))

\* The processes the call meets.  A pid is written by its role.
ServerPid == "server"
ClientPid == "client"
ShellPid == "shell"
PgrepPid == "pgrep"
BackgroundPid(i) == IF i = 1 THEN "bg1" ELSE "bg2"

\* The wrapped text of execute_shell: the command text itself on Windows,
\* else format!("{{ {cmd} }}; __code=$?; pgrep -g 0 >{tmp} 2>&1; exit $__code;")
\* for the trimmed text, with ; pushed unless it ends with & .
wrapped(command, is_windows) ==
    IF is_windows THEN trim(command)
    ELSE LET t == trim(command)
             cmd == IF t # <<>> /\ t[Len(t)] = "&" THEN t ELSE Append(t, ";")
         IN <<"{", " ">> \o cmd \o
            <<" ", "}", ";", " ", "__code=$?", ";", " ", "pgrep", ";", " ",
              "exit $__code", ";">>

\* ---- bash -c, for the texts above
\* The tokens bash reads from a one-line text: the glyphs that are not blank,
\* up to a # that starts a word (after a blank or a shell character, or at
\* the start), which comments out the rest of the line.
RECURSIVE BashTokens(_, _)
BashTokens(text, in_word) ==
    IF text = <<>> THEN <<>>
    ELSE IF Head(text) = "#" /\ ~in_word THEN <<>>
    ELSE IF Head(text) \in Whitespace THEN BashTokens(Tail(text), FALSE)
    ELSE <<Head(text)>>
         \o BashTokens(Tail(text), Head(text) \notin {";", "&", "{", "}"})

Separators == {";", "&"}

\* Whether bash accepts the tokens as a list of commands.  pos is "cmd" where
\* a command may start, "arg" inside a simple command and "grp" after the }
\* of a group; prev is the token before.  A separator needs a command before
\* it, { opens a group where a command may start, } closes it only after a
\* separator, and only a separator may follow a group.
RECURSIVE BashSyntaxOk(_, _, _, _)
BashSyntaxOk(tokens, pos, prev, depth) ==
    IF tokens = <<>> THEN depth = 0
    ELSE LET t == Head(tokens)
             rest == Tail(tokens)
         IN IF t \in Separators
            THEN pos # "cmd" /\ BashSyntaxOk(rest, "cmd", t, depth)
            ELSE IF pos = "arg" THEN BashSyntaxOk(rest, "arg", t, depth)
            ELSE IF pos = "grp" THEN FALSE
            ELSE IF t = "{" THEN BashSyntaxOk(rest, "cmd", t, depth + 1)
            ELSE IF t = "}"
                 THEN depth > 0 /\ prev \in Separators
                      /\ BashSyntaxOk(rest, "grp", t, depth - 1)
            ELSE BashSyntaxOk(rest, "arg", t, depth)

\* The exit status of a simple command, by its first word.  The assignment
\* __code=$? and pgrep (which finds at least the shell) succeed.
WordStatus(word) == IF word = "rm" THEN "1" ELSE "0"

\* bash runs accepted tokens from left to right.  e holds the status $? (st),
\* the status of the simple command being read (pend, "none" at a command
\* position), the variable __code, the number of commands started in the
\* background (bg), whether pgrep has run with how many of them started
\* before, and the status the shell exited with ("none" while it runs).
RECURSIVE BashEval(_, _)
BashEval(tokens, e) ==
    IF tokens = <<>> \/ e.exit # "none"
    THEN [e EXCEPT !.exit = IF @ # "none" THEN @
                             ELSE IF e.pend # "none" THEN e.pend ELSE e.st]
    ELSE LET t == Head(tokens)
             rest == Tail(tokens)
         IN IF t = ";"
            THEN BashEval(rest, [e EXCEPT !.st = IF e.pend # "none" THEN e.pend ELSE @,
                                          !.pend = "none"])
            ELSE IF t = "&"
            THEN BashEval(rest, [e EXCEPT !.st = "0", !.pend = "none",
                                          !.bg = @ + 1])
            ELSE IF e.pend # "none" THEN BashEval(rest, e)
            ELSE IF t \in {"{", "}"} THEN BashEval(rest, e)
            ELSE IF t = "__code=$?"
            THEN BashEval(rest, [e EXCEPT !.code = e.st, !.pend = "0"])
            ELSE IF t = "exit $__code"
            THEN BashEval(rest, [e EXCEPT !.exit = e.code])
            ELSE IF t = "pgrep"
            THEN BashEval(rest, [e EXCEPT !.pgrep = TRUE, !.pend = "0"])
            ELSE BashEval(rest, [e EXCEPT !.pend = WordStatus(t)])

\* bash -c text, run to its end: a text bash does not accept runs nothing and
\* exits with status 2.
Bash(text) ==
    LET tokens == BashTokens(text, FALSE)
        e0 == [st |-> "0", pend |-> "none", code |-> "0", bg |-> 0,
               pgrep |-> FALSE, exit |-> "none"]
    IN IF BashSyntaxOk(tokens, "cmd", ";", 0) THEN BashEval(tokens, e0)
       ELSE [e0 EXCEPT !.exit = "2"]

\* ---- the call
\* The allow and deny lists hold command roots; the workspace root is
\* absolute; a dir_path, when given, is relative or absolute.
ListedRoots == { <<w>> : w \in Words }
WorkspaceRoot == AbsPath(<<"w">>)
DirPaths ==
    {Null}
      \cup { Some(RelPath(comps)) :
               comps \in UNION { [1..n -> {"a", ".."}] : n \in 0..MaxPathLen } }
      \cup { Some(AbsPath(<<"etc">>)), Some(AbsPath(<<"w", "a">>)) }

\* pgrep -g 0: the pids of the live processes of pgrep's own process group,
\* pgrep itself left out.  procs gives each live process its group.
pgrep_g0(procs) ==
    { p \in DOMAIN procs : procs[p] = procs[PgrepPid] } \ {PgrepPid}

\* Command::spawn and the forks of bash -c: no call changes the process
\* group, so a new process is in the group of its parent.
Forked(procs, pid, parent) ==
    [p \in DOMAIN procs \cup {pid} |-> IF p = pid THEN procs[parent] ELSE procs[p]]

\* The background_pids of the ShellResult: empty on Windows and when the
\* temporary file does not exist, else the numbers in it other than child.id().
background_pids(tmp_file, pid, is_windows) ==
    IF is_windows \/ tmp_file = Null THEN {}
    ELSE { pid_val \in tmp_file[1] : pid_val # pid }

\* The run_shell handler has been called with a command text and possibly a
\* dir_path.  The server runs in its own process group or in the one of the
\* client that started it.
InitShell ==
    /\ jobs = <<>>
    /\ events = [x \in JobIds |-> <<>>]
    /\ async_registry = {}
    /\ next_id = 0
    /\ ret = [x \in JobIds |-> "none"]
    /\ bg = [x \in JobIds |-> NoTask]
    /\ flag = [x \in JobIds |-> FALSE]
    /\ hist = [x \in JobIds |-> NoHist]
    /\ run = [x \in JobIds |-> IdleRun]
    /\ child = [x \in JobIds |-> NoChild]
    /\ reader = [x \in JobIds |-> [s \in StreamKind |-> "stopped"]]
    /\ rx = [x \in JobIds |-> <<>>]
    /\ \E allow \in SUBSET ListedRoots, deny \in SUBSET ListedRoots,
          is_windows \in BOOLEAN :
         opts = [timeout_ms |-> 0, ai_timeout_ms |-> 0,
                 max_output_bytes |-> MaxChunkLen,
                 allow_commands |-> allow, deny_commands |-> deny,
                 workspace_root |-> WorkspaceRoot, is_windows |-> is_windows]
    /\ \E command \in CommandTexts, dir_path \in DirPaths,
          leader \in {ServerPid, ClientPid} :
         handler = [op |-> "run_shell", pc |-> "called", command |-> command,
                    dir_path |-> dir_path, error |-> "(none)",
                    cwd |-> WorkspaceRoot, pid |-> "none",
                    procs |-> IF leader = ServerPid
                              THEN (ServerPid :> ServerPid)
                              ELSE (ServerPid :> ClientPid) @@ (ClientPid :> ClientPid),
                    exit_code |-> "unset", tmp_file |-> Null,
                    background_pids |-> {}]

\* The run_shell handler up to the spawn in execute_shell: the list checks on
\* the command root, the resolution and the check of the working directory,
\* then Command::new(..).current_dir(cwd).spawn().
run_shell ==
    /\ handler.op = "run_shell"
    /\ handler.pc = "called"
    /\ LET command_root == get_command_root(handler.command)
           root_error == CommandRootError(command_root)
           resolved_root == opts.workspace_root
           cwd == IF handler.dir_path = Null THEN resolved_root
                  ELSE resolve_within_root(resolved_root, handler.dir_path[1])
       IN handler' =
            IF root_error # "(none)"
            THEN [handler EXCEPT !.pc = "rejected", !.error = root_error]
            ELSE IF ~is_subpath(resolved_root, cwd)
            THEN [handler EXCEPT !.pc = "rejected",
                                 !.error = "dir_path must be within workspace"]
            ELSE [handler EXCEPT !.pc = "spawned", !.cwd = cwd, !.pid = ShellPid,
                                 !.procs = Forked(@, ShellPid, ServerPid)]
    /\ UNCHANGED <<jobs, events, async_registry, flag, next_id, ret, bg, run,
                   child, reader, rx, opts, hist>>

\* The spawned shell runs the wrapped text to its end without being killed.
\* Of the commands it started in the background some are still running when
\* pgrep runs, which writes the temporary file.  powershell.exe is not
\* modelled: its exit code is any.
shell_exit ==
    /\ handler.op = "run_shell"
    /\ handler.pc = "spawned"
    /\ IF opts.is_windows
       THEN \E code \in {"0", "1"} :
               handler' = [handler EXCEPT !.pc = "exited", !.exit_code = code]
       ELSE LET b == Bash(wrapped(handler.command, FALSE)) IN
            \E alive \in SUBSET { BackgroundPid(i) : i \in 1..b.bg } :
               LET procs == [p \in DOMAIN handler.procs \cup alive \cup {PgrepPid}
                               |-> IF p \in DOMAIN handler.procs
                                   THEN handler.procs[p]
                                   ELSE handler.procs[ShellPid]]
               IN handler' =
                    [handler EXCEPT !.pc = "exited", !.exit_code = b.exit,
                                    !.tmp_file = IF b.pgrep THEN Some(pgrep_g0(procs))
                                                 ELSE Null]
    /\ UNCHANGED <<jobs, events, async_registry, flag, next_id, ret, bg, run,
                   child, reader, rx, opts, hist>>

\* execute_shell after the loop: the temporary file is read into
\* background_pids and the result returned.
execute_shell_return ==
    /\ handler.op = "run_shell"
    /\ handler.pc = "exited"
    /\ handler' = [handler EXCEPT
                     !.pc = "returned",
                     !.background_pids =
                         background_pids(handler.tmp_file, handler.pid,
                                         opts.is_windows)]
    /\ UNCHANGED <<jobs, events, async_registry, flag, next_id, ret, bg, run,
                   child, reader, rx, opts, hist>>

NextShell ==
    \/ run_shell
    \/ shell_exit
    \/ execute_shell_return

SpecShell == InitShell /\ [][NextShell]_vars

\* ------------------------------------------------------- the stdin payload
\* run_command has spawned the child of a call with Some(input) and is about
\* to write the payload: no reader exists yet.  The call has no timeout and no
\* flag.  The child writes some chunks to stdout before it reads its stdin.
InitStdin ==
    /\ IdleJobState
    /\ opts = [timeout_ms |-> 0, ai_timeout_ms |-> 0,
               max_output_bytes |-> MaxChunkLen]
    /\ \E n \in 1..MaxInput :
         run = [x \in JobIds |->
                  IF x = TheExec
                  THEN [StartedRun(0, MaxChunkLen, FALSE)
                          EXCEPT !.pc = "write_all", !.input_left = n]
                  ELSE IdleRun]
    /\ \E ig \in BOOLEAN, w \in 0..MaxOwed :
         child = [x \in JobIds |->
                    IF x = TheExec THEN [SpawnedChild(ig) EXCEPT !.owes = w]
                    ELSE NoChild]
    /\ reader = [x \in JobIds |-> [s \in StreamKind |-> "stopped"]]
    /\ rx = [x \in JobIds |-> <<>>]

NextStdin ==
    \/ run_command_stdin(TheExec)
    \/ ChildRead(TheExec)
    \/ ChildOwedWrite(TheExec)
    \/ JobLoop(TheExec)
    \/ JobRecv(TheExec)
    \/ JobEnvironment(TheExec)

\* Every thread and the child are scheduled fairly; the child ends when it
\* chooses to.
SpecStdin ==
    /\ InitStdin
    /\ [][NextStdin]_vars
    /\ WF_vars(run_command_stdin(TheExec))
    /\ WF_vars(ChildRead(TheExec))
    /\ WF_vars(ChildOwedWrite(TheExec))
    /\ WF_vars(JobLoop(TheExec))
    /\ WF_vars(JobRecv(TheExec))
    /\ \A s \in StreamKind : WF_vars(spawn_reader(TheExec, s))

\* ------------------------------------------------------------------ claims
\* Claims C1 to C8 are stated of Spec, claims C9 and C10 of SpecTimed.

\* C1: once the persisted status of a job is done, error or cancelled, no step
\* of the background task, of cancel_sub_agent_job or of run_sub_agent changes
\* it to another value.
C1_TerminalStatusNeverChanges ==
    [][\A j \in DOMAIN jobs :
         jobs[j].status \in Terminal => jobs'[j].status = jobs[j].status]_vars

\* C2: when cancel_sub_agent_job was called for an asynchronous job while its
\* id was registered and its child was still running, then once the
\* background task has ended and the cancel call has returned the persisted
\* status is cancelled and the id is not in the registry.
C2_CancelBeforeExitEndsCancelled ==
    \A j \in DOMAIN jobs :
        (hist[j].cancel_live /\ bg[j].pc = "finished"
            /\ ~(handler.op = "cancel" /\ handler.job = j))
        => (jobs[j].status = "cancelled" /\ j \notin async_registry)

\* C3: a cancel_sub_agent_job call that arrives only after the run of the job
\* has completely finished leaves the persisted status and result_json of the
\* job as they were.
C3_LateCancelChangesNothing ==
    [][(handler.op = "cancel" /\ handler.late /\ handler'.op = "idle")
         => (/\ jobs'[handler.job].status = jobs[handler.job].status
             /\ jobs'[handler.job].result_json = jobs[handler.job].result_json)]_vars

\* C4: a cancel_sub_agent_job call for an id that has no registry entry when
\* it arrives returns having changed neither the registry nor any JobRecord.
C4_UnregisteredCancelIsNoOp ==
    [][(handler.op = "cancel" /\ ~handler.registered /\ handler'.op = "idle")
         => (jobs' = jobs /\ async_registry' = async_registry)]_vars

\* The terminal status claim C5 gives for a RunResult.
C5_ClaimedStatus(result) ==
    IF result.error = "cancelled" THEN "cancelled"
    ELSE IF result.exit_code = "0" /\ ~result.timed_out THEN "done"
    ELSE "error"

\* C5: the status persisted for a finished run, by the background task or by
\* run_sub_agent, is cancelled when result.error is "cancelled", otherwise
\* done exactly when the exit code is 0 and timed_out is false, otherwise
\* error; a run without an exit code is not recorded as done.
C5_PersistedStatusFollowsResult ==
    [][/\ \A j \in JobIds :
            (bg[j].pc = "running" /\ bg'[j].pc = "event")
            => jobs'[j].status = C5_ClaimedStatus(run[j].result)
       /\ (handler.op = "run_sub_agent" /\ handler'.op = "idle")
            => jobs'[handler.job].status
                 = C5_ClaimedStatus(run[handler.job].result)]_vars

\* C6: when run_sub_agent returned the setup error of run_command to its
\* caller, the JobRecord the call created is not in status queued or running.
C6_SetupErrorLeavesNoStuckJob ==
    \A j \in DOMAIN jobs :
        ret[j] = "error" => jobs[j].status \notin {"queued", "running"}

\* C7: once the background task of an asynchronous job has ended, on whichever
\* of its paths, a terminal status is persisted for the job.
C7_EndedTaskPersistedTerminal ==
    \A j \in DOMAIN jobs :
        bg[j].pc = "finished" => jobs[j].status \in Terminal

\* C8: a job id is inserted in the registry at most once and removed at most
\* once; its entry is present exactly from the insertion to the removal, only
\* while the background task of the job is alive, and every path of the
\* background task has removed it exactly once when the task ends.
C8_RegistryEntryLifetime ==
    \A j \in JobIds :
        /\ hist[j].inserted <= 1
        /\ hist[j].removed <= hist[j].inserted
        /\ (j \in async_registry) = (hist[j].inserted = 1 /\ hist[j].removed = 0)
        /\ j \in async_registry => bg[j].pc \notin {"none", "finished"}
        /\ bg[j].pc = "finished" => hist[j].removed = 1

\* C8, reached: two asynchronous jobs have ended, one whose background task
\* could not open its JobStore and one whose run was persisted as done.
C8_BothPathsEnded ==
    \E j, k \in DOMAIN jobs :
        /\ bg[j].pc = "finished" /\ jobs[j].status = "running"
        /\ bg[k].pc = "finished" /\ jobs[k].status = "done"
        /\ hist[j].removed = 1 /\ hist[k].removed = 1

\* C9: with a timeout T > 0 a child that writes nothing and does not exit is
\* marked timed_out and sent SIGTERM within one polling slice after T, and is
\* no longer running T + 2000 ms + one polling slice after the start.
C9_SilentChildStoppedInTime ==
    LET r == run[TheExec] IN
    (r.timeout_ms > 0 /\ r.chunks = 0 /\ child[TheExec].state = "running")
    => /\ r.elapsed > r.timeout_ms + RecvTimeoutMs
            => (r.timed_out /\ r.term_count > 0)
       /\ r.elapsed <= r.timeout_ms + KillGraceMs + RecvTimeoutMs

\* C10: SIGKILL is first sent no earlier than 2000 ms and no later than
\* 2000 ms + one polling slice after the first SIGTERM of the execution,
\* whether the timeout, the cancellation or both requested it.
C10_KillWindowAfterFirstTerm ==
    LET r == run[TheExec] IN
    /\ r.kill_count > 0
         => (r.kill_after >= KillGraceMs
             /\ r.kill_after <= KillGraceMs + RecvTimeoutMs)
    /\ (r.term_count > 0 /\ r.kill_count = 0 /\ child[TheExec].state = "running")
         => r.since_term <= KillGraceMs + RecvTimeoutMs

\* C11: in run_command the timeout is an inactivity timeout: a run is marked
\* timed_out only when at least timeout_ms have passed since the last data
\* event was received (since the start when none was), so a child whose
\* output keeps arriving at shorter intervals is never timed out.
C11_TimeoutOnlyAfterInactivity ==
    [][(~run[TheExec].timed_out /\ run'[TheExec].timed_out)
         => run[TheExec].last_activity >= run[TheExec].timeout_ms]_vars

\* C12: in run_command the captured text of each stream is never longer than
\* max_output_bytes bytes, and once the truncated flag of a stream is true it
\* stays true and the text of that stream no longer changes.
C12_PerStreamCeiling ==
    [][run[TheExec].variant = "runner" =>
         LET r == run[TheExec]
             q == run'[TheExec]
         IN /\ Len(q.stdout_text) <= q.max_output_bytes
            /\ Len(q.stderr_text) <= q.max_output_bytes
            /\ r.stdout_truncated
                 => (q.stdout_truncated /\ q.stdout_text = r.stdout_text)
            /\ r.stderr_truncated
                 => (q.stderr_truncated /\ q.stderr_text = r.stderr_text)]_vars

\* C13: in execute_shell the ceiling is combined: the bytes appended to
\* stdout plus those appended to stderr, and the counter total_bytes, never
\* exceed max_output_bytes, and once truncated is true it stays true and
\* output, stdout and stderr no longer change.
C13_CombinedCeiling ==
    [][run[TheExec].variant = "shell" =>
         LET r == run[TheExec]
             q == run'[TheExec]
         IN /\ q.total_bytes <= q.max_output_bytes
            /\ Len(q.stdout_text) + Len(q.stderr_text) <= q.max_output_bytes
            /\ r.truncated
                 => /\ q.truncated
                    /\ q.output = r.output
                    /\ q.stdout_text = r.stdout_text
                    /\ q.stderr_text = r.stderr_text]_vars

\* The number of truncation markers in a captured text.
C14_Markers(text) ==
    Cardinality({i \in DOMAIN text : text[i] = TruncationMarker})

\* C14: when an execution has returned, the text of every truncated stream
\* holds the truncation marker exactly once: stdout and stderr of run_command
\* by their own flags, and for execute_shell the combined output and the
\* stream the marker goes to.
C14_MarkerOncePerTruncatedStream ==
    LET r == run[TheExec] IN
    r.pc = "returned" =>
        IF r.variant = "runner"
        THEN /\ r.result.stdout_truncated => C14_Markers(r.result.stdout) = 1
             /\ r.result.stderr_truncated => C14_Markers(r.result.stderr) = 1
        ELSE r.result.truncated =>
                /\ C14_Markers(r.result.output) = 1
                /\ C14_Markers(r.result.stdout) + C14_Markers(r.result.stderr) = 1

\* C15: a result with timed_out = true of a run that was not cancelled has
\* as error the message naming the configured timeout, and the result of a
\* cancelled run has the error "cancelled"; execute_shell has no cancellation.
C15_ErrorNamesTheCause ==
    LET r == run[TheExec] IN
    r.pc = "returned" =>
        /\ r.cancelled => r.result.error = "cancelled"
        /\ (r.result.timed_out /\ ~r.cancelled)
             => r.result.error = TimeoutMessage(r.timeout_ms)

\* C16: no result of run_command has both timed_out = true and the error
\* "cancelled": a run is reported as timed out or as cancelled, never both.
C16_TimeoutAndCancelDistinct ==
    LET r == run[TheExec] IN
    (r.pc = "returned" /\ r.variant = "runner")
        => ~(r.result.timed_out /\ r.result.error = "cancelled")

\* C17: with timeout_ms <= 0 and no cancellation flag set, run_command and
\* execute_shell send neither SIGTERM nor SIGKILL, the child does not end by
\* either signal, and timed_out stays false up to and in the result.
C17_NoTimeoutNoSignals ==
    LET r == run[TheExec] IN
    (r.timeout_ms <= 0 /\ ~(r.has_flag /\ flag[TheExec]))
        => /\ r.term_count = 0
           /\ r.kill_count = 0
           /\ ~r.timed_out
           /\ child[TheExec].status \notin {TermStatus, KillStatus}
           /\ r.pc = "returned" => ~r.result.timed_out

\* C17, reached: an execution with a negative timeout and no flag set has
\* returned after the child wrote all its chunks and exited with code 0.
C17_UnboundedRunReturned ==
    LET r == run[TheExec] IN
    /\ r.timeout_ms < 0
    /\ ~flag[TheExec]
    /\ r.pc = "returned"
    /\ r.chunks = MaxExecChunks
    /\ r.result.exit_code = "0"

\* C18: a flag set while the loop of run_command is running is read, and
\* SIGTERM sent, within one loop iteration: while the child is still running
\* a set flag has gone unread for at most one 100 ms receive wait, and a run
\* that has read the flag has sent SIGTERM.
C18_CancelSeenWithinOneSlice ==
    LET r == run[TheExec] IN
    /\ (r.has_flag /\ flag[TheExec] /\ ~r.cancelled
            /\ r.pc \in {"loop", "recv"} /\ child[TheExec].state = "running")
         => r.since_flag <= RecvTimeoutMs
    /\ r.cancelled => r.term_count >= 1

\* C18, reached: the flag was set while the loop was blocked in its receive,
\* a full receive wait has passed since, and the loop is about to read it.
C18_FlagUnreadForOneSlice ==
    LET r == run[TheExec] IN
    /\ r.has_flag /\ flag[TheExec] /\ ~r.cancelled
    /\ child[TheExec].state = "running"
    /\ r.since_flag = RecvTimeoutMs
    /\ r.timed_out

\* C19: once start_sub_agent_async or run_sub_agent has returned a job id to
\* its caller, get_sub_agent_status for that id never reports queued; the
\* running status is in the table before the handler returns and before the
\* background thread of the job starts.
C19_ReturnedJobNeverQueued ==
    \A j \in JobIds :
       (ret[j] \in {"job_id", "ok"} \/ bg[j].pc # "none")
         => get_sub_agent_status(j) \notin {"queued", "Job not found"}

\* C19 happens: the row of the second job is still queued inside its handler
\* while the first job, whose id was returned, is read with a terminal status.
C19_QueuedOnlyInsideHandler ==
    /\ handler.op = "start_sub_agent_async"
    /\ get_sub_agent_status(handler.job) = "queued"
    /\ \E j \in JobIds : ret[j] = "job_id" /\ get_sub_agent_status(j) \in Terminal

C27_TermAtMostOnce == run[TheExec].term_count <= 1

\* C28: termination signals are sent only to a child whose exit has not been
\* observed: once the exit poll has returned the status of the child, neither
\* the graceful signal nor the forceful kill is sent to its pid.
C28_NoSignalAfterExitObserved == run[TheExec].stale_signals = 0

\* C29: in any execution the forceful kill is sent only after a graceful
\* termination request of the same execution, and at most once.
C29_KillOnceAfterTerm ==
    LET r == run[TheExec] IN
    /\ r.kill_count <= 1
    /\ r.kill_count > 0 => r.term_count > 0

\* C30: run_command reports the cancellation marker only if the flag was
\* observed while the exit of the child had not been observed: the iteration
\* that sets cancelled has not stored an exit status, in this iteration's exit
\* poll or in an earlier one.
C30_CancelledOnlyBeforeExitObserved ==
    [][(run[TheExec].variant = "runner"
          /\ ~run[TheExec].cancelled /\ run'[TheExec].cancelled)
         => run'[TheExec].exit_status = NoStatus]_vars

\* C21: the reader threads never wait for each other or for the control
\* loop: a reader with something to publish can always publish it, and
\* whatever the child has written into a pipe is taken out of it, so a child
\* blocked on a full pipe can write again, however slow the control loop and
\* whatever the other stream does.
C21_ReadersNeverBlocked ==
    \A s \in StreamKind :
       child[TheExec].pipe[s] # <<>> ~> child[TheExec].pipe[s] = <<>>

\* C21 happens: the stdout reader has published an event the control loop has
\* not received, the child has filled the stdout pipe again, and stderr is
\* open and silent.
C21_ReaderAheadOfLoop ==
    /\ rx[TheExec] # <<>>
    /\ \A i \in DOMAIN rx[TheExec] : rx[TheExec][i].kind = "Stdout"
    /\ child[TheExec].pipe["Stdout"] # <<>>
    /\ child[TheExec].open["Stderr"]
    /\ child[TheExec].pipe["Stderr"] = <<>>
    /\ reader[TheExec]["Stderr"] = "reading"
    /\ run[TheExec].pc = "loop"

\* C22: with a stdin payload run_command cannot deadlock with the child: for
\* any payload and any child that writes output before it has consumed its
\* input, and does not end before, the payload is eventually written in full,
\* stdin closed and the control loop entered.
C22_PayloadEventuallyWritten ==
    <>(run[TheExec].pc \notin {"write_all", "failed"}
         \/ child[TheExec].state # "running")

\* The first whitespace-delimited token of a text: the longest run of glyphs
\* without a blank that starts at the first glyph that is not a blank.
C23_FirstToken(text) ==
    LET idx == { k \in 1..Len(text) : text[k] \notin Whitespace } IN
    IF idx = {} THEN <<>>
    ELSE LET i == CHOOSE k \in idx : \A l \in idx : k <= l
             j == CHOOSE k \in i..Len(text) :
                     /\ \A l \in i..k : text[l] \notin Whitespace
                     /\ k = Len(text) \/ text[k + 1] \in Whitespace
         IN SubSeq(text, i, j)

\* C23: run_shell never spawns a process for a command whose first
\* whitespace-delimited token is in the deny list, or is absent from a
\* non-empty allow list; a token in both lists is rejected as denied.
C23_ListedRootsEnforced ==
    handler.op = "run_shell" =>
       LET token == C23_FirstToken(handler.command) IN
       /\ handler.pc \in {"spawned", "exited", "returned"}
            => /\ token \notin opts.deny_commands
               /\ opts.allow_commands = {} \/ token \in opts.allow_commands
       /\ (handler.pc = "rejected" /\ token \in opts.deny_commands)
            => handler.error = "Command root is denied"

\* C23 happens: a call whose token is in both lists has been rejected.
C23_DeniedThoughAllowed ==
    /\ handler.op = "run_shell"
    /\ handler.pc = "rejected"
    /\ C23_FirstToken(handler.command) \in opts.deny_commands
    /\ C23_FirstToken(handler.command) \in opts.allow_commands
    /\ Len(handler.command) > 1

\* C24: run_shell executes a command only with a working directory inside
\* the workspace root: when the shell has been spawned, the directory its
\* cwd denotes is the root or lies below it.
C24_CwdInsideWorkspace ==
    (handler.op = "run_shell" /\ handler.pc \in {"spawned", "exited", "returned"})
      => LET dir == Walk(handler.cwd.comps, <<>>)
             root == opts.workspace_root.comps
         IN Len(dir) >= Len(root) /\ SubSeq(dir, 1, Len(root)) = root

\* C25: for a POSIX shell command that runs to completion without being
\* killed, the exit_code execute_shell reports is the exit code of the
\* command text of the user.
C25_ExitCodeOfUserCommand ==
    (handler.op = "run_shell" /\ handler.pc \in {"exited", "returned"}
       /\ ~opts.is_windows)
      => handler.exit_code = Bash(handler.command).exit

\* C26: background_pids holds only processes the command left running in the
\* background, never the pid of the server or of the spawned shell, and is
\* empty on platforms without POSIX process groups.
C26_OnlyBackgroundPids ==
    (handler.op = "run_shell" /\ handler.pc = "returned")
      => /\ ServerPid \notin handler.background_pids
         /\ ShellPid \notin handler.background_pids
         /\ handler.background_pids
              \subseteq { BackgroundPid(i) : i \in 1..Bash(handler.command).bg }
         /\ opts.is_windows => handler.background_pids = {}

\* C31: after the child has exited, on its own or after the forceful kill,
\* run_command and execute_shell eventually return a result, even when a
\* process started by the command still holds the output pipes open.
C31_ReturnsAfterChildExit ==
    child[TheExec].state = "exited" ~> run[TheExec].pc = "returned"

\* C32: run_command and execute_shell assemble their result only after both
\* streams have delivered their done event and the exit status of the child
\* has been observed; at that point both readers have ended, nothing they
\* sent is still in the channel and nothing the child wrote is still in a
\* pipe.
C32_ResultAfterAllEvents ==
    LET r == run[TheExec] IN
    r.pc = "returned" =>
        /\ r.stdout_done /\ r.stderr_done
        /\ r.exit_status # NoStatus
        /\ rx[TheExec] = <<>>
        /\ \A s \in StreamKind :
              reader[TheExec][s] = "stopped" /\ child[TheExec].pipe[s] = <<>>

\* C32 happens: run_command has returned after the child wrote all its
\* chunks, some to each stream, and something of each was captured.
C32_BothStreamsCaptured ==
    LET r == run[TheExec] IN
    /\ r.pc = "returned"
    /\ r.variant = "runner"
    /\ r.chunks = MaxExecChunks
    /\ r.stdout_text # <<>>
    /\ r.stderr_text # <<>>

\* C33: for any sequence of data chunks of one stream processed by
\* run_command, the captured text of the stream is the first
\* min(N, max_output_bytes) of the N bytes of the chunks, in the order they
\* were produced, and the truncated flag of the stream is true exactly when
\* N > max_output_bytes.
C33_CapturedPrefix ==
    LET r == run[TheExec]
        captured(text, truncated, bytes) ==
            /\ text = SubSeq(bytes, 1, Min(Len(bytes), r.max_output_bytes))
            /\ truncated = (Len(bytes) > r.max_output_bytes)
    IN (r.variant = "runner" /\ r.traced) =>
         /\ captured(r.stdout_text, r.stdout_truncated, r.seen["Stdout"])
         /\ captured(r.stderr_text, r.stderr_truncated, r.seen["Stderr"])

\* The events of one type in the log of a job.
C34_Events(log, type) == { i \in DOMAIN log : log[i].type = type }

\* C34: the writes of an asynchronous job occur in the order create (queued),
\* update to running, start event, run of the supervisor, terminal status
\* update, finish event, registry removal.  Step by step: the start event is
\* appended over a row in status running, before the supervisor runs and
\* before the id is registered; the supervisor starts only after the start
\* event; the background task writes its terminal status only before the
\* finish event; the finish event names a terminal status the task has
\* persisted; after the registry removal the task writes nothing.  A job
\* whose handler has returned has exactly one start event and at most one
\* finish event.
C34_WritesInOrder ==
    [][\A j \in JobIds :
         (bg'[j].pc # "none") =>
           LET starts == C34_Events(events[j], "start")
               starts_after == C34_Events(events'[j], "start")
               finishes == C34_Events(events[j], "finish")
               finishes_after == C34_Events(events'[j], "finish")
           IN /\ Cardinality(starts_after) = 1
              /\ Cardinality(finishes_after) <= 1
              /\ starts_after # starts
                   => /\ jobs'[j].status = "running"
                      /\ run[j].pc = "idle" /\ j \notin async_registry
              /\ (run[j].pc = "idle" /\ run'[j].pc # "idle")
                   => starts # {} /\ finishes = {} /\ j \in async_registry
              /\ hist'[j].persisted # hist[j].persisted
                   => /\ starts # {} /\ finishes = {}
                      /\ hist'[j].persisted \in Terminal
                      /\ jobs'[j].status = hist'[j].persisted
              /\ finishes_after # finishes
                   => /\ j \in async_registry
                      /\ \A i \in finishes_after :
                            events'[j][i].status = hist[j].persisted
              /\ (j \in async_registry /\ j \notin async_registry')
                   => bg'[j].pc = "finished"
              /\ bg[j].pc = "finished"
                   => (jobs'[j] = jobs[j] \/ handler.op = "cancel")
                      /\ events'[j] = events[j]]_vars

\* The bytes of the data events of one stream in a channel or a pipe, in the
\* order of the queue.
RECURSIVE C35_Bytes(_, _)
C35_Bytes(queue, s) ==
    IF queue = <<>> THEN <<>>
    ELSE (IF Head(queue).type = "Data" /\ Head(queue).kind = s
          THEN Head(queue).chunk ELSE <<>>) \o C35_Bytes(Tail(queue), s)

RECURSIVE C35_Flat(_)
C35_Flat(pipe) == IF pipe = <<>> THEN <<>> ELSE Head(pipe) \o C35_Flat(Tail(pipe))

\* C35: for each stream the reader emits its data events in the order the
\* bytes were read, each chunk no longer than the buffer, and exactly one
\* done event after all the data events of the stream; the control loop
\* receives the events of a stream in that order.  The bytes the loop has
\* processed, those in the channel and those still in the pipe are, in this
\* order, the bytes the child wrote; the done event of a stream is the last
\* event of the stream and is sent once, when the reader ends.
C35_StreamOrderKept ==
    LET r == run[TheExec]
        q == rx[TheExec]
        dones(s) == { i \in DOMAIN q : q[i].type = "Done" /\ q[i].kind = s }
        datas(s) == { i \in DOMAIN q : q[i].type = "Data" /\ q[i].kind = s }
        done(s) == IF s = "Stdout" THEN r.stdout_done ELSE r.stderr_done
    IN r.traced =>
         \A s \in StreamKind :
            /\ r.seen[s] \o C35_Bytes(q, s) \o C35_Flat(child[TheExec].pipe[s])
                 = r.wrote[s]
            /\ \A i \in datas(s) : Len(q[i].chunk) \in 1..BufferLen
            /\ Cardinality(dones(s)) + (IF done(s) THEN 1 ELSE 0)
                 = (IF reader[TheExec][s] = "stopped" THEN 1 ELSE 0)
            /\ \A i \in dones(s) : \A k \in datas(s) : k < i
            /\ done(s) => datas(s) = {}
            /\ reader[TheExec][s] = "stopped" =>
                 child[TheExec].pipe[s] = <<>>

\* C35 happens: a chunk longer than the buffer was written to stdout and has
\* been read in two parts, the first of which the loop has processed; the
\* second waits in the channel behind a data event of stderr, and the stdout
\* reader has sent its done event.
C35_SplitChunkInterleaved ==
    LET r == run[TheExec]
        q == rx[TheExec]
    IN /\ r.traced
       /\ Len(r.wrote["Stdout"]) > BufferLen
       /\ Len(r.seen["Stdout"]) = BufferLen
       /\ Len(q) = 3
       /\ q[1].kind = "Stderr" /\ q[1].type = "Data"
       /\ q[2].kind = "Stdout" /\ q[2].type = "Data"
       /\ q[3].kind = "Stdout" /\ q[3].type = "Done"

\* C36: cancel_sub_agent_job for an existing job leaves, at the moment the
\* handler returns, the persisted record with status cancelled, error
\* "cancelled" and no result_json, whatever the status of the record was and
\* whether or not a flag was registered for the id.
C36_CancelledWhenCancelReturns ==
    [][(handler.op = "cancel_return" /\ handler'.op = "idle")
         => LET job == get_job(jobs', handler.job) IN
            /\ job # Null
            /\ job[1].status = "cancelled"
            /\ job[1].error = Some("cancelled")
            /\ job[1].result_json = Null]_vars

\* C37: in execute_shell every data event resets the inactivity clock, also
\* one whose chunk is dropped because the output is already truncated;
\* timed_out becomes true only when at least timeout_ms have passed since the
\* last data event was taken from the channel (since the start when none
\* was), and once true it stays true.
C37_InactivityClock ==
    [][LET r == run[TheExec]
           q == run'[TheExec]
       IN r.variant = "shell" =>
            /\ (r.pc = "recv" /\ rx[TheExec] # <<>>
                   /\ Head(rx[TheExec]).type = "Data" /\ q.pc = "loop")
                 => q.last_activity = 0
            /\ (~r.timed_out /\ q.timed_out)
                 => (r.timeout_ms > 0 /\ r.since_data >= r.timeout_ms)
            /\ r.timed_out => q.timed_out]_vars

\* C37 happens: the shell wrote all its chunks, the second of which was
\* dropped by the ceiling, and fell silent; the loop has just marked the run
\* timed_out and armed the kill deadline.
C37_TimedOutAfterDroppedChunk ==
    LET r == run[TheExec] IN
    /\ r.variant = "shell"
    /\ r.chunks = MaxExecChunks
    /\ r.truncated
    /\ rx[TheExec] = <<>>
    /\ \A s \in StreamKind : child[TheExec].pipe[s] = <<>>
    /\ r.timed_out
    /\ r.pc = "recv" /\ r.recv_waited = 0
    /\ r.kill_armed /\ r.kill_deadline = KillGraceMs

\* The number of truncation markers in a text of a ShellResult.
C38_Markers(text) ==
    Cardinality({ i \in DOMAIN text : text[i] = TruncationMarker })

\* C38: when execute_shell truncates, the marker is appended exactly once to
\* the combined output and to exactly one of stdout and stderr: to stderr if
\* the last chunk of which something was appended came from stderr, otherwise
\* to stdout, and the other text carries no marker.  last_stream names the
\* stream of the last chunk that made the combined output grow, and the
\* result follows it; a result that is not truncated carries no marker.
C38_MarkerOnLastAppendedStream ==
    [][LET r == run[TheExec]
           q == run'[TheExec]
       IN r.variant = "shell" =>
            /\ (r.pc = "recv" /\ q.pc = "loop")
                 => IF q.output # r.output
                    THEN q.last_stream = Head(rx[TheExec]).kind
                    ELSE q.last_stream = r.last_stream
            /\ (r.pc = "loop" /\ q.pc = "returned")
                 => LET to_stderr == r.truncated /\ r.last_stream = "Stderr"
                        to_stdout == r.truncated /\ r.last_stream # "Stderr"
                    IN /\ q.result.truncated = r.truncated
                       /\ C38_Markers(q.result.output)
                            = (IF r.truncated THEN 1 ELSE 0)
                       /\ C38_Markers(q.result.stderr)
                            = (IF to_stderr THEN 1 ELSE 0)
                       /\ C38_Markers(q.result.stdout)
                            = (IF to_stdout THEN 1 ELSE 0)
                       /\ to_stderr
                            => q.result.stderr = r.stderr_text \o <<TruncationMarker>>
                       /\ to_stdout
                            => q.result.stdout = r.stdout_text \o <<TruncationMarker>>
                       /\ r.truncated
                            => q.result.output = r.output \o <<TruncationMarker>>]_vars

\* C38 happens: execute_shell has returned a truncated result in which the
\* last chunk appended came from stderr and filled the ceiling, a later chunk
\* of stdout was dropped whole, and the marker is on stderr: stdout is shown
\* as empty.
C38_MarkerStaysOnStderr ==
    LET r == run[TheExec] IN
    /\ r.variant = "shell" /\ r.traced
    /\ r.pc = "returned"
    /\ r.truncated
    /\ r.total_bytes = r.max_output_bytes
    /\ r.seen["Stdout"] # <<>>
    /\ r.stdout_text = <<>>
    /\ r.result.stdout = <<"(empty)">>
    /\ C38_Markers(r.result.stderr) = 1

\* The columns of a JobRecord that update_job_status does not name.
C39_OtherColumns ==
    {"id", "task", "agent_id", "command_id", "payload_json", "created_at",
     "session_id", "run_id"}

\* C39: update_job_status changes only status, result_json, error and
\* updated_at of the addressed record: its other columns and every column of
\* every other record are as before, no record is created or deleted, and a
\* call for an unknown id changes nothing and returns none; for a known id
\* the four columns take the values of the call and the row is returned.
C39_UpdateTouchesFourColumns ==
    [][handler'.called = "update_job_status" =>
         LET id == handler'.job_id IN
         /\ DOMAIN jobs' = DOMAIN jobs
         /\ \A i \in DOMAIN jobs \ {id} : jobs'[i] = jobs[i]
         /\ id \in DOMAIN jobs
              => /\ \A column \in C39_OtherColumns :
                       jobs'[id][column] = jobs[id][column]
                 /\ jobs'[id].updated_at = handler'.now
                 /\ jobs'[id].status \in StoreStatuses
                 /\ handler'.returned = Some(jobs'[id])
         /\ id \notin DOMAIN jobs
              => /\ jobs' = jobs
                 /\ handler'.returned = Null]_vars

\* C39 happens: of two rows with different tasks, created at different
\* instants, the second has just been updated to cancelled and the first is
\* still as it was created.
C39_SecondRowUpdated ==
    /\ handler.op = "JobStore"
    /\ handler.called = "update_job_status"
    /\ DOMAIN jobs = {1, 2}
    /\ handler.job_id = 2
    /\ jobs[1].task # jobs[2].task
    /\ jobs[1].status = "queued" /\ jobs[1].updated_at = jobs[1].created_at
    /\ jobs[2].status = "cancelled" /\ jobs[2].error = Some("cancelled")
    /\ jobs[2].updated_at > jobs[2].created_at

\* C39 happens too: a call for an id that no row has returned none and left
\* the one row of the table as it was.
C39_UnknownIdReturnedNone ==
    /\ handler.op = "JobStore"
    /\ handler.called = "update_job_status"
    /\ handler.job_id \notin DOMAIN jobs
    /\ handler.returned = Null
    /\ jobs # <<>>

====
